---- MODULE Spec2Model ----
(***************************************************************************)
(* Transaction and cursor layer of the python-lsm binding (Connection,     *)
(* Transaction handle) above the LSM engine handle.                        *)
(*                                                                         *)
(* Spec      : one caller; every action is one whole handler of the        *)
(*             binding, with every engine call it makes.                   *)
(* SpecMT    : several native threads sharing one Connection; a handler is *)
(*             split exactly where it releases the interpreter lock        *)
(*             (Py_BEGIN_ALLOW_THREADS) or enters / leaves the engine.     *)
(***************************************************************************)
EXTENDS Integers, Sequences, FiniteSets, TLC

\* ---------------------------------------------------------------- bounds
MaxVal == 1
MaxLevel == 2
MaxTx == 2
MaxThreads == 2

\* the one key the transaction scenarios write (k1)
TxKeys == {1}
Vals == 1..MaxVal
\* the ends a delete_range is called with: below, at and above the key
RangeEnds == {0, 1, 2}
TxIds == 1..MaxTx
Threads == 1..MaxThreads

\* ------------------------------------------------------ program constants
PY_LSM_INITIALIZED == 0
PY_LSM_OPENED == 1
PY_LSM_CLOSED == 2
PY_LSM_ITERATING == 3

LSM_SEEK_LEFAST == "LSM_SEEK_LEFAST"
LSM_SEEK_LE == "LSM_SEEK_LE"
LSM_SEEK_EQ == "LSM_SEEK_EQ"
LSM_SEEK_GE == "LSM_SEEK_GE"

LSM_OK == "LSM_OK"
LSM_BUSY == "LSM_BUSY"
LSM_READONLY == "LSM_READONLY"

\* result codes an engine call can return
EngineRc == {LSM_OK, LSM_BUSY}

VARIABLES
    state,      \* LSM.state
    readonly,   \* LSM.readonly
    tx_level,   \* LSM.tx_level
    lsm,        \* the engine handle LSM.lsm: nesting depth, contents, marks
    txs,        \* the Transaction handles (LSMTransaction objects)
    last,       \* the last completed handler: what it was, what it called
    gil,        \* the thread holding the interpreter lock (0: nobody)
    lsm_mutex,  \* the thread holding LSM.lsm_mutex (0: free)
    thr,        \* per thread: the handler it is in and its position
    csr,        \* the Cursor object (LSMCursor) of the cursor scenarios
    binary,     \* LSM.binary: keys and values are bytes (1) or str (0)
    view,       \* the view object (LSMIterView or LSMSliceView) being iterated
    logger      \* LSM.logger: a callback is configured (1) or not (0: NULL)

vars == <<state, readonly, tx_level, lsm, txs, last, gil, lsm_mutex, thr, csr,
          binary, view, logger>>

\* ------------------------------------------------------------ the engine
\* A store maps the stored keys to their values.
Stores == UNION {[S -> Vals] : S \in SUBSET TxKeys}
EmptyStore == [k \in {} |-> 1]

Put(s, k, v) == [x \in (DOMAIN s) \cup {k} |-> IF x = k THEN v ELSE s[x]]
Del(s, k) == [x \in (DOMAIN s) \ {k} |-> s[x]]

\* lsm_begin: ensures at least iLevel nested transactions are open; every
\* level it opens remembers the contents at that moment.
lsm_begin(e, iLevel) ==
    IF iLevel > e.nTransOpen
    THEN [e EXCEPT !.aTrans = @ \o [i \in 1..(iLevel - e.nTransOpen) |-> e.store],
                   !.nTransOpen = iLevel]
    ELSE e

\* lsm_commit: ensures at most iLevel nested transactions are open.
lsm_commit(e, iLevel) ==
    IF iLevel < e.nTransOpen
    THEN [e EXCEPT !.aTrans = SubSeq(@, 1, iLevel), !.nTransOpen = iLevel]
    ELSE e

\* lsm_rollback: restores the contents of the moment level iLevel was opened
\* (level 1 for iLevel = 0) and leaves at most iLevel transactions open.
lsm_rollback(e, iLevel) ==
    IF e.nTransOpen > 0 /\ iLevel <= e.nTransOpen
    THEN [e EXCEPT !.store = e.aTrans[IF iLevel = 0 THEN 1 ELSE iLevel],
                   !.aTrans = SubSeq(@, 1, iLevel),
                   !.nTransOpen = iLevel]
    ELSE e

lsm_insert(e, k, v) == [e EXCEPT !.store = Put(@, k, v)]
lsm_delete(e, k) == [e EXCEPT !.store = Del(@, k)]

\* lsm_delete_range: removes the keys strictly between the two ends
lsm_delete_range(e, a, b) ==
    [e EXCEPT !.store = [x \in {k \in DOMAIN e.store : ~(a < k /\ k < b)} |-> e.store[x]]]

\* lsm_close: an open write transaction is rolled back.
lsm_close(e) == lsm_rollback(e, 0)

\* an engine call as recorded (function and level or key), and the handle
\* after a call that returned rc (a call that fails changes nothing)
Call(fn, arg) == <<fn, arg>>
After(e, e2, rc) == IF rc = LSM_OK THEN e2 ELSE e

\* ------------------------------------------------------ binding: helpers
NoExc == "none"

\* the exception pylsm_error sets for a result code
pylsm_error(rc) ==
    CASE rc = LSM_OK -> NoExc
      [] rc = LSM_BUSY -> "RuntimeError"
      [] rc = LSM_READONLY -> "PermissionError"
      [] OTHER -> "RuntimeError"

pylsm_ensure_opened == IF state = PY_LSM_OPENED THEN NoExc ELSE "RuntimeError"

\* mutant: the writable check without the look at the read-only flag
pylsm_ensure_writable_any == pylsm_ensure_opened

pylsm_ensure_writable ==
    IF pylsm_ensure_opened # NoExc THEN pylsm_ensure_opened
    ELSE IF readonly # 0 THEN pylsm_error(LSM_READONLY)
    ELSE NoExc

\* what a handler leaves behind: exc (the exception set, NoExc if none), the
\* engine handle, the tracked level, the engine calls made, in order, and rc,
\* the code the last of them returned (LSM_OK when there was none)
Res(exc, e, lvl, calls, rc) ==
    [exc |-> exc, lsm |-> e, tx_level |-> lvl, calls |-> calls, rc |-> rc]

\* a handler that stops on a failed check, before any engine call
Refused(exc, e, lvl) == Res(exc, e, lvl, <<>>, LSM_OK)

Clamp(l) == IF l < 0 THEN 0 ELSE l

LSM_begin_level(txl) == txl + 1

\* mutant: the tracked level is advanced before the result code is looked at
LSM_begin_tracked_early(txl, level, rc) == level

LSM_begin_tracked(txl, level, rc) == IF rc = LSM_OK THEN level ELSE txl

LSM_begin(e, txl, rc) ==
    IF pylsm_ensure_writable # NoExc THEN Refused(pylsm_ensure_writable, e, txl)
    ELSE LET t0 == Clamp(txl)
             level == LSM_begin_level(t0)
         IN  Res(pylsm_error(rc), After(e, lsm_begin(e, level), rc),
                 LSM_begin_tracked(t0, level, rc),
                 <<Call("lsm_begin", level)>>, rc)

LSM_commit_inner(e, txl, level, rc) ==
    IF pylsm_ensure_writable # NoExc THEN Refused(pylsm_ensure_writable, e, txl)
    ELSE LET l == Clamp(level)
         IN  Res(pylsm_error(rc), After(e, lsm_commit(e, l), rc), txl,
                 <<Call("lsm_commit", l)>>, rc)

LSM_rollback_inner(e, txl, level, rc) ==
    IF pylsm_ensure_writable # NoExc THEN Refused(pylsm_ensure_writable, e, txl)
    ELSE LET l == Clamp(level)
         IN  Res(pylsm_error(rc), After(e, lsm_rollback(e, l), rc), txl,
                 <<Call("lsm_rollback", l)>>, rc)

LSM_commit(e, txl, rc) == LSM_commit_inner(e, Clamp(txl), Clamp(txl), rc)

LSM_rollback(e, txl, rc) == LSM_rollback_inner(e, Clamp(txl), Clamp(txl), rc)

\* ------------------------------------------------- Transaction handles
\* A handle slot: alive (the object exists), state and tx_level are the
\* LSMTransaction fields. The other fields are history, kept to state the
\* properties: opened (the contents when the handle's level was last opened
\* for it), current (no commit or rollback below the handle's level has gone
\* to the engine since and its scope has not exited), acted (the last of
\* commit() and rollback() called on it while current, "none" if neither was).
NoTx == [alive |-> FALSE, state |-> PY_LSM_INITIALIZED, tx_level |-> 0,
         opened |-> EmptyStore, current |-> FALSE, acted |-> "none"]

LSMTransaction_new(e, txl) ==
    [alive |-> TRUE, state |-> PY_LSM_INITIALIZED, tx_level |-> txl,
     opened |-> e.store, current |-> TRUE, acted |-> "none"]

\* the level Transaction.commit / a normal scope exit commits to
LSMTransaction_commit_level(t) == t.tx_level - 1

\* mutant: rollback to the level below the handle's, as commit does
LSMTransaction_rollback_level_below(t) == t.tx_level - 1

\* the level Transaction.rollback / an exceptional exit / dealloc rolls back to
LSMTransaction_rollback_level(t) == t.tx_level

\* mutant: the commit without the lsm_begin that reopens the handle's level
LSMTransaction_commit_terminal(e, txl, t, rc, rc2) ==
    LSM_commit_inner(e, txl, LSMTransaction_commit_level(t), rc)

\* LSMTransaction_commit: commit below the handle's level, then begin the
\* handle's level again (rc2 is the code of that lsm_begin)
LSMTransaction_commit(e, txl, t, rc, rc2) ==
    LET r == LSM_commit_inner(e, txl, LSMTransaction_commit_level(t), rc)
    IN  IF r.exc # NoExc THEN r
        ELSE Res(pylsm_error(rc2), After(r.lsm, lsm_begin(r.lsm, t.tx_level), rc2),
                 txl, r.calls \o <<Call("lsm_begin", t.tx_level)>>, rc2)

LSMTransaction_rollback(e, txl, t, rc) ==
    LSM_rollback_inner(e, txl, LSMTransaction_rollback_level(t), rc)

\* mutant: an explicit commit() / rollback() finalizes the handle
LSMTransaction_acted_state_closed(t) == PY_LSM_CLOSED

\* the state Transaction.commit() / rollback() leave the handle in
LSMTransaction_acted_state(t) == t.state

\* mutant: the exit without the check for a CLOSED handle
LSMTransaction_ctx_exit_unchecked(e, txl, t, exceptional, rc) ==
    IF exceptional
    THEN LSM_rollback_inner(e, txl, LSMTransaction_rollback_level(t), rc)
    ELSE LSM_commit_inner(e, txl, LSMTransaction_commit_level(t), rc)

\* LSMTransaction_ctx_exit: nothing on a CLOSED handle, else one commit or
\* rollback; exceptional is TRUE when the scope is left by an exception
LSMTransaction_ctx_exit(e, txl, t, exceptional, rc) ==
    IF t.state = PY_LSM_CLOSED THEN Refused(NoExc, e, txl)
    ELSE IF exceptional
         THEN LSM_rollback_inner(e, txl, LSMTransaction_rollback_level(t), rc)
         ELSE LSM_commit_inner(e, txl, LSMTransaction_commit_level(t), rc)

\* mutant: the destructor without the check for a CLOSED handle
LSMTransaction_dealloc_unchecked(e, txl, t, rc) ==
    IF state # PY_LSM_CLOSED
    THEN LSM_rollback_inner(e, txl, LSMTransaction_rollback_level(t), rc)
    ELSE Refused(NoExc, e, txl)

\* LSMTransaction_dealloc: a rollback unless the handle or the Connection is
\* CLOSED
LSMTransaction_dealloc(e, txl, t, rc) ==
    IF t.state # PY_LSM_CLOSED /\ state # PY_LSM_CLOSED
    THEN LSM_rollback_inner(e, txl, LSMTransaction_rollback_level(t), rc)
    ELSE Refused(NoExc, e, txl)

\* the calls of a handler that returned LSM_OK: all of them, or all but the
\* last when the handler ended on an engine failure
Succeeded(r) ==
    IF r.rc = LSM_OK THEN r.calls
    ELSE SubSeq(r.calls, 1, Len(r.calls) - 1)

\* history: a commit, rollback or close that the engine carried out at a level
\* below the handle's closes the level the handle opened
Closes(c, t) == c[1] \in {"lsm_commit", "lsm_rollback", "lsm_close"} /\ c[2] < t.tx_level

StillCurrent(t, calls) == t.current /\ \A i \in 1..Len(calls) : ~Closes(calls[i], t)

\* a handle that is no longer current has no history to keep
Forget(t) ==
    IF t.alive /\ ~t.current
    THEN [t EXCEPT !.opened = EmptyStore, !.acted = "none"]
    ELSE t

Track(ts, r) ==
    [h \in TxIds |-> Forget([ts[h] EXCEPT !.current = StillCurrent(ts[h], Succeeded(r))])]

\* ------------------------------------------------------------ Connection
\* mutant: LSM_open without the checks of the state
LSM_open_unchecked(rcs) ==
    LET all == IF readonly = 0 THEN <<"lsm_open", "lsm_flush", "lsm_work">>
               ELSE <<"lsm_open">>
        bad == {i \in 1..Len(all) : rcs[i] # LSM_OK}
        n == IF bad = {} THEN Len(all)
             ELSE CHOOSE i \in bad : \A j \in bad : i <= j
    IN  [exc |-> pylsm_error(rcs[n]),
         state |-> IF bad = {} THEN PY_LSM_OPENED ELSE state,
         calls |-> [i \in 1..n |-> Call(all[i], 0)],
         rc |-> rcs[n]]

\* mutant: LSM_open that sets the state as soon as lsm_open has returned
LSM_open_eager(rcs) ==
    IF state = PY_LSM_OPENED \/ state = PY_LSM_CLOSED
    THEN [exc |-> "RuntimeError", state |-> state, calls |-> <<>>, rc |-> LSM_OK]
    ELSE LET all == IF readonly = 0 THEN <<"lsm_open", "lsm_flush", "lsm_work">>
                    ELSE <<"lsm_open">>
             bad == {i \in 1..Len(all) : rcs[i] # LSM_OK}
             n == IF bad = {} THEN Len(all)
                  ELSE CHOOSE i \in bad : \A j \in bad : i <= j
         IN  [exc |-> pylsm_error(rcs[n]),
              state |-> IF rcs[1] = LSM_OK THEN PY_LSM_OPENED ELSE state,
              calls |-> [i \in 1..n |-> Call(all[i], 0)],
              rc |-> rcs[n]]

\* LSM_open: lsm_open, then (unless read-only) lsm_flush and lsm_work; the
\* state becomes OPENED only when all of them returned LSM_OK. rcs[i] is the
\* code the i-th call returns.
LSM_open(rcs) ==
    IF state = PY_LSM_OPENED \/ state = PY_LSM_CLOSED
    THEN [exc |-> "RuntimeError", state |-> state, calls |-> <<>>, rc |-> LSM_OK]
    ELSE LET all == IF readonly = 0 THEN <<"lsm_open", "lsm_flush", "lsm_work">>
                    ELSE <<"lsm_open">>
             bad == {i \in 1..Len(all) : rcs[i] # LSM_OK}
             n == IF bad = {} THEN Len(all)
                  ELSE CHOOSE i \in bad : \A j \in bad : i <= j
         IN  [exc |-> pylsm_error(rcs[n]),
              state |-> IF bad = {} THEN PY_LSM_OPENED ELSE state,
              calls |-> [i \in 1..n |-> Call(all[i], 0)],
              rc |-> rcs[n]]

\* _LSM_close: lsm_close under the mutex; CLOSED only when it returned LSM_OK
LSM_close_inner(e, rc) ==
    [exc |-> pylsm_error(rc),
     state |-> IF rc = LSM_OK THEN PY_LSM_CLOSED ELSE state,
     lsm |-> After(e, lsm_close(e), rc),
     calls |-> <<Call("lsm_close", 0)>>,
     rc |-> rc]

\* mutant: LSM_close without the check for a CLOSED Connection
LSM_close_unchecked(e, rc) == LSM_close_inner(e, rc)

LSM_close(e, rc) ==
    IF state = PY_LSM_CLOSED
    THEN [exc |-> "RuntimeError", state |-> state, lsm |-> e, calls |-> <<>>,
          rc |-> LSM_OK]
    ELSE LSM_close_inner(e, rc)

\* LSM_ctx_enter: an OPENED Connection is returned as it is, any other is
\* opened by LSM_open
LSM_ctx_enter(rcs) ==
    IF state = PY_LSM_OPENED
    THEN [exc |-> NoExc, state |-> state, calls |-> <<>>, rc |-> LSM_OK]
    ELSE LSM_open(rcs)

\* the level LSM_ctx_exit commits or rolls back to
LSM_ctx_exit_level == 0

\* LSM_ctx_exit: nothing on a CLOSED Connection; else, when the tracked level
\* is above 0, LSM_commit_inner (normal exit) or LSM_rollback_inner
\* (exceptional exit) at level 0, whose result is not looked at, and then
\* _LSM_close. rc is the code of the commit or rollback, rc2 that of lsm_close.
LSM_ctx_exit(e, txl, exceptional, rc, rc2) ==
    IF state = PY_LSM_CLOSED
    THEN [exc |-> NoExc, state |-> state, lsm |-> e, calls |-> <<>>,
          done |-> <<>>, rc |-> LSM_OK]
    ELSE LET r == IF txl > 0
                  THEN IF exceptional
                       THEN LSM_rollback_inner(e, txl, LSM_ctx_exit_level, rc)
                       ELSE LSM_commit_inner(e, txl, LSM_ctx_exit_level, rc)
                  ELSE Refused(NoExc, e, txl)
             c == LSM_close_inner(r.lsm, rc2)
         IN  [exc |-> IF c.exc # NoExc THEN c.exc ELSE r.exc,
              state |-> c.state,
              lsm |-> c.lsm,
              calls |-> r.calls \o c.calls,
              done |-> Succeeded(r) \o Succeeded(c),
              rc |-> rc2]

\* LSM_dealloc: a Connection that is not CLOSED is closed by _LSM_close, and
\* pylsm_error sets the exception for a failed lsm_close
LSM_dealloc(e, rc) ==
    IF state # PY_LSM_CLOSED
    THEN LSM_close_inner(e, rc)
    ELSE [exc |-> NoExc, state |-> state, lsm |-> e, calls |-> <<>>,
          rc |-> LSM_OK]

LSM_insert(e, txl, k, v, rc) ==
    IF pylsm_ensure_writable # NoExc THEN Refused(pylsm_ensure_writable, e, txl)
    ELSE Res(pylsm_error(rc), After(e, lsm_insert(e, k, v), rc), txl,
             <<Call("lsm_insert", k)>>, rc)

LSM_delete(e, txl, k, rc) ==
    IF pylsm_ensure_writable # NoExc THEN Refused(pylsm_ensure_writable, e, txl)
    ELSE Res(pylsm_error(rc), After(e, lsm_delete(e, k), rc), txl,
             <<Call("lsm_delete", k)>>, rc)

\* the outcome of a handler that dereferences a NULL pointer
Crash == "SIGSEGV"

\* LSM_getitem (one key): pylsm_getitem under the mutex. A key that is not
\* found is a KeyError; when the engine fails no value was fetched and the
\* handler returns True before it looks at the result code.
LSM_getitem(e, txl, k, rc) ==
    IF pylsm_ensure_opened # NoExc THEN Refused(pylsm_ensure_opened, e, txl)
    ELSE Res(IF rc = LSM_OK /\ k \notin DOMAIN e.store THEN "KeyError" ELSE NoExc,
             e, txl, <<Call("pylsm_getitem", k)>>, rc)

\* LSM_contains: pylsm_contains under the mutex
LSM_contains(e, txl, k, rc) ==
    IF pylsm_ensure_opened # NoExc THEN Refused(pylsm_ensure_opened, e, txl)
    ELSE Res(pylsm_error(rc), e, txl, <<Call("pylsm_contains", k)>>, rc)

\* LSM_length: LSM_MutexLock and pylsm_length, with no check of the state. On
\* a CLOSED Connection lsm_env and lsm_mutex are NULL and LSM_MutexLock
\* dereferences lsm_env.
LSM_length(e, txl, rc) ==
    IF state = PY_LSM_CLOSED THEN Refused(Crash, e, txl)
    ELSE Res(pylsm_error(rc), e, txl, <<Call("pylsm_length", 0)>>, rc)

\* LSM_info: lsm_info under the mutex
LSM_info(e, txl, rc) ==
    IF pylsm_ensure_opened # NoExc THEN Refused(pylsm_ensure_opened, e, txl)
    ELSE Res(pylsm_error(rc), e, txl, <<Call("lsm_info", 0)>>, rc)

\* LSM_work, LSM_flush, LSM_checkpoint: one engine call under the mutex; the
\* stored data is not changed
LSM_work(e, txl, rc) ==
    IF pylsm_ensure_writable # NoExc THEN Refused(pylsm_ensure_writable, e, txl)
    ELSE Res(pylsm_error(rc), e, txl, <<Call("lsm_work", 0)>>, rc)

LSM_flush(e, txl, rc) ==
    IF pylsm_ensure_writable # NoExc THEN Refused(pylsm_ensure_writable, e, txl)
    ELSE Res(pylsm_error(rc), e, txl, <<Call("lsm_flush", 0)>>, rc)

LSM_checkpoint(e, txl, rc) ==
    IF pylsm_ensure_writable # NoExc THEN Refused(pylsm_ensure_writable, e, txl)
    ELSE Res(pylsm_error(rc), e, txl, <<Call("lsm_checkpoint", 0)>>, rc)

\* LSM_set_del_item with one key: db[k] = v is lsm_insert, del db[k] (v = 0
\* here) is pylsm_delitem, a KeyError when the key is not stored
LSM_set_del_item(e, txl, k, v, rc) ==
    IF pylsm_ensure_writable # NoExc THEN Refused(pylsm_ensure_writable, e, txl)
    ELSE IF v = 0
         THEN IF rc = LSM_OK /\ k \notin DOMAIN e.store
              THEN Res("KeyError", e, txl, <<Call("pylsm_delitem", k)>>, rc)
              ELSE Res(pylsm_error(rc), After(e, lsm_delete(e, k), rc), txl,
                       <<Call("pylsm_delitem", k)>>, rc)
         ELSE Res(pylsm_error(rc), After(e, lsm_insert(e, k, v), rc), txl,
                  <<Call("lsm_insert", k)>>, rc)

LSM_delete_range(e, txl, a, b, rc) ==
    IF pylsm_ensure_writable # NoExc THEN Refused(pylsm_ensure_writable, e, txl)
    ELSE Res(pylsm_error(rc), After(e, lsm_delete_range(e, a, b), rc), txl,
             <<Call("lsm_delete_range", a)>>, rc)

\* LSM_update with a mapping of one item: lsm_insert under the mutex
LSM_update(e, txl, k, v, rc) ==
    IF pylsm_ensure_writable # NoExc THEN Refused(pylsm_ensure_writable, e, txl)
    ELSE Res(pylsm_error(rc), After(e, lsm_insert(e, k, v), rc), txl,
             <<Call("lsm_insert", k)>>, rc)

\* no view object exists (alive = FALSE). The fields are those of the
\* LSMIterView and LSMSliceView structs: cursor is TRUE while the view holds
\* an engine cursor, pos is the key that cursor stands on (0: on no valid
\* entry), start and stop are the bounds (-1: NULL). kind is the type of the
\* object, out the keys of the entries handed out so far, and clean whether
\* every engine call made for the view returned LSM_OK.
NoView == [alive |-> FALSE, kind |-> "none", state |-> PY_LSM_INITIALIZED,
           cursor |-> FALSE, pos |-> 0, start |-> -1, stop |-> -1, step |-> 1,
           direction |-> "PY_LSM_SLICE_FORWARD", counter |-> 0, out |-> <<>>,
           clean |-> TRUE]

\* no Cursor object exists (alive = FALSE); the fields are those of the
\* LSMCursor struct: db is TRUE while the object holds its reference to the
\* Connection, cursor is TRUE while it holds an engine cursor, pos is the
\* key the engine cursor stands on (0: not on a valid entry)
NoCsr == [alive |-> FALSE, state |-> PY_LSM_INITIALIZED, db |-> FALSE,
          cursor |-> FALSE, pos |-> 0, seek_mode |-> LSM_SEEK_GE]

\* ------------------------------------------ Spec: one caller, whole handlers
\* a thread that is in no handler of the binding
Idle == [op |-> "idle", pos |-> "idle", level |-> 0, h |-> 0, key |-> 0,
         val |-> 0, rc |-> LSM_OK, raced |-> FALSE]

Init ==
    /\ state = PY_LSM_INITIALIZED
    /\ readonly \in {0, 1}
    /\ tx_level = 0
    /\ lsm \in {[nTransOpen |-> 0, store |-> s, aTrans |-> <<>>] : s \in Stores}
    /\ txs = [h \in TxIds |-> NoTx]
    /\ last = [op |-> "init", h |-> 0, exceptional |-> FALSE, acted |-> "none",
               exc |-> NoExc, calls |-> <<>>, rc |-> LSM_OK]
    /\ gil = 0
    /\ lsm_mutex = 0
    /\ thr = [t \in Threads |-> Idle]
    /\ csr = NoCsr
    /\ binary = 0
    /\ view = NoView
    /\ logger = 0

Single == UNCHANGED <<gil, lsm_mutex, thr, csr, binary, view, logger>>

\* the handler op on handle h (0: on the Connection) has completed with r;
\* acted is what had been called on the handle before. A Connection that was
\* destroyed takes no further call, nor does a process that crashed.
Done(op, h, exceptional, r) ==
    /\ last.op # "dealloc"
    /\ last.exc # Crash
    /\ last' = [op |-> op, h |-> h, exceptional |-> exceptional,
                acted |-> IF h = 0 THEN "none" ELSE txs[h].acted,
                exc |-> r.exc, calls |-> r.calls, rc |-> r.rc]
    /\ lsm' = r.lsm
    /\ tx_level' = r.tx_level

Open ==
    \E rcs \in {f \in [1..3 -> EngineRc] : Cardinality({i \in 1..3 : f[i] # LSM_OK}) <= 1} :
        LET r == LSM_open(rcs)
        IN  /\ state' = r.state
            /\ Done("open", 0, FALSE, Res(r.exc, lsm, tx_level, r.calls, r.rc))
            /\ UNCHANGED <<readonly, txs>>
            /\ Single

Close ==
    \E rc \in EngineRc :
        LET r == LSM_close(lsm, rc)
        IN  /\ state' = r.state
            /\ Done("close", 0, FALSE, Res(r.exc, r.lsm, tx_level, r.calls, r.rc))
            /\ txs' = Track(txs, r)
            /\ UNCHANGED readonly
            /\ Single

CtxEnter ==
    \E rcs \in {f \in [1..3 -> EngineRc] : Cardinality({i \in 1..3 : f[i] # LSM_OK}) <= 1} :
        LET r == LSM_ctx_enter(rcs)
        IN  /\ state' = r.state
            /\ Done("ctx_enter", 0, FALSE, Res(r.exc, lsm, tx_level, r.calls, r.rc))
            /\ UNCHANGED <<readonly, txs>>
            /\ Single

CtxExit ==
    \E exceptional \in BOOLEAN, rc \in EngineRc, rc2 \in EngineRc :
        /\ rc # LSM_OK => rc2 = LSM_OK
        /\ LET r == LSM_ctx_exit(lsm, tx_level, exceptional, rc, rc2)
           IN  /\ state' = r.state
               /\ Done("ctx_exit", 0, exceptional,
                       Res(r.exc, r.lsm, tx_level, r.calls, r.rc))
               /\ txs' = Track(txs, [calls |-> r.done, rc |-> LSM_OK])
        /\ UNCHANGED readonly
        /\ Single

\* the Connection is destroyed when nothing refers to it: every Transaction
\* handle holds a reference to its Connection
Dealloc ==
    \E rc \in EngineRc :
        /\ \A h \in TxIds : ~txs[h].alive
        /\ LET r == LSM_dealloc(lsm, rc)
           IN  /\ state' = r.state
               /\ Done("dealloc", 0, FALSE, Res(r.exc, r.lsm, tx_level, r.calls, r.rc))
        /\ UNCHANGED <<readonly, txs>>
        /\ Single

Insert ==
    \E k \in TxKeys, v \in Vals, rc \in EngineRc :
        /\ Done("insert", 0, FALSE, LSM_insert(lsm, tx_level, k, v, rc))
        /\ UNCHANGED <<state, readonly, txs>>
        /\ Single

Delete ==
    \E k \in TxKeys, rc \in EngineRc :
        /\ Done("delete", 0, FALSE, LSM_delete(lsm, tx_level, k, rc))
        /\ UNCHANGED <<state, readonly, txs>>
        /\ Single

GetItem ==
    \E k \in TxKeys, rc \in EngineRc :
        /\ Done("getitem", 0, FALSE, LSM_getitem(lsm, tx_level, k, rc))
        /\ UNCHANGED <<state, readonly, txs>>
        /\ Single

Contains ==
    \E k \in TxKeys, rc \in EngineRc :
        /\ Done("contains", 0, FALSE, LSM_contains(lsm, tx_level, k, rc))
        /\ UNCHANGED <<state, readonly, txs>>
        /\ Single

Length ==
    \E rc \in EngineRc :
        /\ Done("length", 0, FALSE, LSM_length(lsm, tx_level, rc))
        /\ UNCHANGED <<state, readonly, txs>>
        /\ Single

Info ==
    \E rc \in EngineRc :
        /\ Done("info", 0, FALSE, LSM_info(lsm, tx_level, rc))
        /\ UNCHANGED <<state, readonly, txs>>
        /\ Single

Work ==
    \E rc \in EngineRc :
        /\ Done("work", 0, FALSE, LSM_work(lsm, tx_level, rc))
        /\ UNCHANGED <<state, readonly, txs>>
        /\ Single

Flush ==
    \E rc \in EngineRc :
        /\ Done("flush", 0, FALSE, LSM_flush(lsm, tx_level, rc))
        /\ UNCHANGED <<state, readonly, txs>>
        /\ Single

Checkpoint ==
    \E rc \in EngineRc :
        /\ Done("checkpoint", 0, FALSE, LSM_checkpoint(lsm, tx_level, rc))
        /\ UNCHANGED <<state, readonly, txs>>
        /\ Single

SetDelItem ==
    \E k \in TxKeys, v \in Vals \cup {0}, rc \in EngineRc :
        /\ Done(IF v = 0 THEN "delitem" ELSE "setitem", 0, FALSE,
                LSM_set_del_item(lsm, tx_level, k, v, rc))
        /\ UNCHANGED <<state, readonly, txs>>
        /\ Single

DeleteRange ==
    \E a \in RangeEnds, b \in RangeEnds, rc \in EngineRc :
        /\ a < b
        /\ Done("delete_range", 0, FALSE, LSM_delete_range(lsm, tx_level, a, b, rc))
        /\ UNCHANGED <<state, readonly, txs>>
        /\ Single

Update ==
    \E k \in TxKeys, v \in Vals, rc \in EngineRc :
        /\ Done("update", 0, FALSE, LSM_update(lsm, tx_level, k, v, rc))
        /\ UNCHANGED <<state, readonly, txs>>
        /\ Single

Begin ==
    \E rc \in EngineRc :
        /\ tx_level < MaxLevel
        /\ Done("begin", 0, FALSE, LSM_begin(lsm, tx_level, rc))
        /\ UNCHANGED <<state, readonly, txs>>
        /\ Single

Commit ==
    \E rc \in EngineRc :
        LET r == LSM_commit(lsm, tx_level, rc)
        IN  /\ Done("commit", 0, FALSE, r)
            /\ txs' = Track(txs, r)
            /\ UNCHANGED <<state, readonly>>
            /\ Single

Rollback ==
    \E rc \in EngineRc :
        LET r == LSM_rollback(lsm, tx_level, rc)
        IN  /\ Done("rollback", 0, FALSE, r)
            /\ txs' = Track(txs, r)
            /\ UNCHANGED <<state, readonly>>
            /\ Single

\* LSM_transaction: LSM_begin, then a new handle at the tracked level
FreeTx == {h \in TxIds : ~txs[h].alive}

Transaction ==
    \E rc \in EngineRc :
        /\ tx_level < MaxLevel
        /\ FreeTx # {}
        /\ LET r == LSM_begin(lsm, tx_level, rc)
               h == CHOOSE x \in FreeTx : \A y \in FreeTx : x <= y
           IN  /\ Done("transaction", 0, FALSE, r)
               /\ txs' = IF r.exc # NoExc THEN txs
                         ELSE [txs EXCEPT ![h] = LSMTransaction_new(r.lsm, r.tx_level)]
        /\ UNCHANGED <<state, readonly>>
        /\ Single

TxCommit ==
    \E h \in TxIds, rc \in EngineRc, rc2 \in EngineRc :
        /\ txs[h].alive
        /\ rc # LSM_OK => rc2 = LSM_OK
        /\ LET t == txs[h]
               r == LSMTransaction_commit(lsm, tx_level, t, rc, rc2)
               ts == Track(txs, r)
           IN  /\ Done("tx_commit", h, FALSE, r)
               /\ txs' = [ts EXCEPT ![h] = Forget([@ EXCEPT
                              !.state = LSMTransaction_acted_state(t),
                              !.acted = "commit",
                              !.opened = IF r.exc = NoExc THEN r.lsm.store ELSE @,
                              !.current = t.current /\ r.exc = NoExc])]
        /\ UNCHANGED <<state, readonly>>
        /\ Single

TxRollback ==
    \E h \in TxIds, rc \in EngineRc :
        /\ txs[h].alive
        /\ LET t == txs[h]
               r == LSMTransaction_rollback(lsm, tx_level, t, rc)
               ts == Track(txs, r)
           IN  /\ Done("tx_rollback", h, FALSE, r)
               /\ txs' = [ts EXCEPT ![h] = Forget([@ EXCEPT
                              !.state = LSMTransaction_acted_state(t),
                              !.acted = "rollback"])]
        /\ UNCHANGED <<state, readonly>>
        /\ Single

TxExit ==
    \E h \in TxIds, exceptional \in BOOLEAN, rc \in EngineRc :
        /\ txs[h].alive
        /\ LET t == txs[h]
               r == LSMTransaction_ctx_exit(lsm, tx_level, t, exceptional, rc)
               ts == Track(txs, r)
           IN  /\ Done("tx_exit", h, exceptional, r)
               /\ txs' = [ts EXCEPT ![h] = Forget([@ EXCEPT !.state = PY_LSM_CLOSED,
                                                           !.current = FALSE])]
        /\ UNCHANGED <<state, readonly>>
        /\ Single

TxDealloc ==
    \E h \in TxIds, rc \in EngineRc :
        /\ txs[h].alive
        /\ LET t == txs[h]
               r == LSMTransaction_dealloc(lsm, tx_level, t, rc)
               ts == Track(txs, r)
           IN  /\ Done("tx_dealloc", h, FALSE, r)
               /\ txs' = [ts EXCEPT ![h] = NoTx]
        /\ UNCHANGED <<state, readonly>>
        /\ Single

Next ==
    \/ Open
    \/ Close
    \/ CtxEnter
    \/ CtxExit
    \/ Dealloc
    \/ Insert
    \/ Delete
    \/ GetItem
    \/ Contains
    \/ Length
    \/ Info
    \/ Work
    \/ Flush
    \/ Checkpoint
    \/ SetDelItem
    \/ DeleteRange
    \/ Update
    \/ Begin
    \/ Commit
    \/ Rollback
    \/ Transaction
    \/ TxCommit
    \/ TxRollback
    \/ TxExit
    \/ TxDealloc

Spec == Init /\ [][Next]_vars

\* ------------------------------- SpecMT: threads sharing one Connection
\* A handler runs under the interpreter lock up to Py_BEGIN_ALLOW_THREADS
\* (MT_Start), waits for the mutex where it calls LSM_MutexLock (MT_Lock), is
\* inside the engine until the call returns and LSM_MutexLeave has run
\* (MT_Return), and finishes under the interpreter lock (MT_Finish). The
\* position of a thread is "idle", "lock" (blocked in LSM_MutexLock),
\* "in_engine" or "wait_gil" (in Py_END_ALLOW_THREADS).
MTOps == {"insert", "begin", "transaction", "commit", "rollback", "tx_commit",
          "tx_dealloc"}

\* the handlers whose engine call is not between LSM_MutexLock and
\* LSM_MutexLeave: LSM_begin (alone or in LSM_transaction) and the lsm_begin of
\* LSMTransaction_commit
Unlocked == {"begin", "transaction", "tx_rebegin"}

InEngine(t) == thr[t].pos = "in_engine"

\* thread t enters the engine as rec; the calls already running on the engine
\* handle overlap with it
Enter(t, rec) ==
    [u \in Threads |->
        IF u = t
        THEN [rec EXCEPT !.pos = "in_engine",
                         !.raced = \E w \in Threads \ {t} : InEngine(w)]
        ELSE IF InEngine(u) THEN [thr[u] EXCEPT !.raced = TRUE]
        ELSE thr[u]]

\* what the engine call of a handler does to the engine handle
EngineEffect(e, r) ==
    CASE r.op = "insert" -> lsm_insert(e, r.key, r.val)
      [] r.op \in {"begin", "transaction", "tx_rebegin"} -> lsm_begin(e, r.level)
      [] r.op \in {"commit", "tx_commit"} -> lsm_commit(e, r.level)
      [] r.op \in {"rollback", "tx_dealloc"} -> lsm_rollback(e, r.level)
      [] OTHER -> e

InitMT ==
    /\ state = PY_LSM_OPENED
    /\ readonly = 0
    /\ tx_level = 0
    /\ lsm = [nTransOpen |-> 0, store |-> EmptyStore, aTrans |-> <<>>]
    /\ txs = [h \in TxIds |-> NoTx]
    /\ last = [op |-> "init", h |-> 0, exceptional |-> FALSE, acted |-> "none",
               exc |-> NoExc, calls |-> <<>>, rc |-> LSM_OK]
    /\ gil = 0
    /\ lsm_mutex = 0
    /\ thr = [t \in Threads |-> Idle]
    /\ csr = NoCsr
    /\ binary = 0
    /\ view = NoView
    /\ logger = 0

\* the part of a handler before Py_BEGIN_ALLOW_THREADS: the checks and the
\* level it will pass to the engine. A handle is used by one thread at a time
\* and is destroyed only when no thread uses it.
MT_Start(t) ==
    \E op \in MTOps, h \in 0..MaxTx, k \in TxKeys \cup {0}, v \in Vals \cup {0} :
        /\ thr[t].pos = "idle"
        /\ gil = 0
        /\ (op \in {"tx_commit", "tx_dealloc"}) = (h \in TxIds)
        /\ h \in TxIds => (txs[h].alive /\ \A u \in Threads : thr[u].h # h)
        /\ (op = "insert") = (k \in TxKeys)
        /\ (op = "insert") = (v \in Vals)
        /\ op \in {"begin", "transaction"} => tx_level < MaxLevel
        /\ op = "transaction"
           => Cardinality(FreeTx) > Cardinality({u \in Threads : thr[u].op = "transaction"})
        /\ LET level == CASE op \in {"begin", "transaction"} -> LSM_begin_level(Clamp(tx_level))
                          [] op \in {"commit", "rollback"} -> Clamp(tx_level)
                          [] op = "tx_commit" -> Clamp(LSMTransaction_commit_level(txs[h]))
                          [] op = "tx_dealloc" -> Clamp(LSMTransaction_rollback_level(txs[h]))
                          [] OTHER -> 0
               rec == [op |-> op, pos |-> "lock", level |-> level,
                       h |-> IF op = "tx_dealloc" THEN 0 ELSE h,
                       key |-> k, val |-> v, rc |-> LSM_OK, raced |-> FALSE]
               skipped == \/ pylsm_ensure_writable # NoExc
                          \/ op = "tx_dealloc" /\ txs[h].state = PY_LSM_CLOSED
           IN  thr' = IF skipped THEN thr
                      ELSE IF op \in Unlocked THEN Enter(t, rec)
                      ELSE [thr EXCEPT ![t] = rec]
        /\ txs' = IF op = "tx_dealloc" THEN [txs EXCEPT ![h] = NoTx] ELSE txs
        /\ UNCHANGED <<state, readonly, tx_level, lsm, last, gil, lsm_mutex, csr, binary, view, logger>>

\* LSM_MutexLock returns: the thread holds the mutex and makes the engine call
MT_Lock(t) ==
    /\ thr[t].pos = "lock"
    /\ lsm_mutex = 0
    /\ lsm_mutex' = t
    /\ thr' = Enter(t, thr[t])
    /\ UNCHANGED <<state, readonly, tx_level, lsm, txs, last, gil, csr, binary, view, logger>>

\* the engine call returns rc and LSM_MutexLeave runs. A call that overlapped
\* with another call on the same engine handle is a data race: its effect on
\* the handle may be as if it ran alone, or be lost.
MT_Return(t) ==
    \E rc \in EngineRc, lost \in BOOLEAN :
        /\ InEngine(t)
        /\ lost => (thr[t].raced /\ rc = LSM_OK)
        /\ lsm' = IF lost THEN lsm ELSE After(lsm, EngineEffect(lsm, thr[t]), rc)
        /\ lsm_mutex' = IF lsm_mutex = t THEN 0 ELSE lsm_mutex
        /\ IF thr[t].op = "tx_rebegin"
           THEN /\ gil' = 0
                /\ thr' = [thr EXCEPT ![t] = Idle]
           ELSE /\ gil' = gil
                /\ thr' = [thr EXCEPT ![t] = [@ EXCEPT !.pos = "wait_gil",
                                                       !.rc = rc,
                                                       !.raced = FALSE]]
        /\ UNCHANGED <<state, readonly, tx_level, txs, last, csr, binary, view, logger>>

\* the part of a handler after Py_END_ALLOW_THREADS: LSM_begin stores the
\* level it computed, LSM_transaction creates the handle, and
\* LSMTransaction_commit calls lsm_begin, holding the interpreter lock and not
\* the mutex
MT_Finish(t) ==
    /\ thr[t].pos = "wait_gil"
    /\ gil = 0
    /\ LET r == thr[t]
           ok == r.rc = LSM_OK
           lvl == IF r.op \in {"begin", "transaction"}
                  THEN LSM_begin_tracked(tx_level, r.level, r.rc)
                  ELSE tx_level
           h == CHOOSE x \in FreeTx : \A y \in FreeTx : x <= y
       IN  /\ tx_level' = lvl
           /\ txs' = IF r.op = "transaction" /\ ok
                     THEN [txs EXCEPT ![h] = Forget([LSMTransaction_new(lsm, lvl)
                                                        EXCEPT !.current = FALSE])]
                     ELSE txs
           /\ IF r.op = "tx_commit" /\ ok
              THEN /\ gil' = t
                   /\ thr' = Enter(t, [r EXCEPT !.op = "tx_rebegin",
                                                !.level = txs[r.h].tx_level])
              ELSE /\ gil' = gil
                   /\ thr' = [thr EXCEPT ![t] = Idle]
    /\ UNCHANGED <<state, readonly, lsm, last, lsm_mutex, csr, binary, view, logger>>

NextMT ==
    \E t \in Threads :
        \/ MT_Start(t)
        \/ MT_Lock(t)
        \/ MT_Return(t)
        \/ MT_Finish(t)

SpecMT == InitMT /\ [][NextMT]_vars

\* ------------------------------------------------------------ the Cursor
\* bound of the cursor scenarios: the database holds keys out of 1..MaxKey
MaxKey == 2
CsrKeys == 1..MaxKey
CsrStores == UNION {[S -> Vals] : S \in SUBSET CsrKeys}
\* the keys a seek or a compare is called with: below, at and above the keys
SeekKeys == 0..(MaxKey + 1)
SeekModes == {LSM_SEEK_LEFAST, LSM_SEEK_LE, LSM_SEEK_EQ, LSM_SEEK_GE}
\* a seek_mode argument that is an integer, and none of the four modes
BadMode == "other"

\* the engine cursor: it stands on a key of the database, or on none (0)
Least(S) == IF S = {} THEN 0 ELSE CHOOSE x \in S : \A y \in S : x <= y
Greatest(S) == IF S = {} THEN 0 ELSE CHOOSE x \in S : \A y \in S : x >= y

lsm_csr_valid(p) == p # 0
lsm_csr_first(s) == Least(DOMAIN s)
lsm_csr_last(s) == Greatest(DOMAIN s)
lsm_csr_seek(s, k, mode) ==
    CASE mode = LSM_SEEK_EQ -> IF k \in DOMAIN s THEN k ELSE 0
      [] mode = LSM_SEEK_GE -> Least({x \in DOMAIN s : x >= k})
      [] OTHER -> Greatest({x \in DOMAIN s : x <= k})
lsm_csr_next(s, p) == Least({x \in DOMAIN s : x > p})
lsm_csr_prev(s, p) == Greatest({x \in DOMAIN s : x < p})
lsm_csr_cmp(p, k) == IF p < k THEN -1 ELSE IF p > k THEN 1 ELSE 0

\* what a Cursor handler leaves behind: exc (the exception set when it
\* returns, NoExc if none), the Cursor, the engine calls made, rc (the code
\* the last of them returned) and ret, what the handler returns ("NULL": the
\* error return). A handler that returns a value while an exception is set
\* still fails in the caller.
CRes(exc, c, calls, rc, ret) ==
    [exc |-> exc, csr |-> c, calls |-> calls, rc |-> rc, ret |-> ret]

CRefused(exc, c, calls) == CRes(exc, c, calls, LSM_OK, "NULL")

\* the process dies in the handler (a NULL pointer is dereferenced)
CCrash(c, calls) == CRes(Crash, c, calls, LSM_OK, "NULL")

\* pylsm_ensure_csr_opened: rc is what it returns (0 lets the handler go on),
\* exc the exception it has set. When pylsm_ensure_opened(self->db) fails
\* (db is NULL: MemoryError; the Connection is not OPENED: RuntimeError) it
\* returns 0 with that exception set.
pylsm_ensure_csr_opened(c) ==
    IF ~c.db THEN [rc |-> 0, exc |-> "MemoryError", calls |-> <<>>]
    ELSE IF pylsm_ensure_opened # NoExc
    THEN [rc |-> 0, exc |-> pylsm_ensure_opened, calls |-> <<>>]
    ELSE IF c.state \in {PY_LSM_OPENED, PY_LSM_ITERATING}
    THEN IF ~lsm_csr_valid(c.pos)
         THEN [rc |-> -1, exc |-> "RuntimeError", calls |-> <<Call("lsm_csr_valid", 0)>>]
         ELSE [rc |-> 0, exc |-> NoExc, calls |-> <<Call("lsm_csr_valid", 0)>>]
    ELSE [rc |-> -1, exc |-> "RuntimeError", calls |-> <<>>]

\* LSM_MutexLock(self->db) dereferences db and its lsm_env, which are NULL
\* after the Cursor or the Connection was closed
NullMutex(c) == ~c.db \/ state # PY_LSM_OPENED

Bool(b) == IF b THEN "True" ELSE "False"

\* LSM_cursor and LSMCursor_new: the Cursor of a successful call; a failed
\* call returns no object
LSM_cursor(mode, s, rc1, rc2) ==
    IF pylsm_ensure_opened # NoExc THEN CRefused(pylsm_ensure_opened, NoCsr, <<>>)
    ELSE IF mode \notin SeekModes THEN CRefused("ValueError", NoCsr, <<>>)
    ELSE IF rc1 # LSM_OK
    THEN CRes(pylsm_error(rc1), NoCsr, <<Call("lsm_csr_open", 0)>>, rc1, "NULL")
    ELSE IF rc2 # LSM_OK
    THEN CRes(pylsm_error(rc2), NoCsr,
              <<Call("lsm_csr_open", 0), Call("lsm_csr_first", 0)>>, rc2, "NULL")
    ELSE CRes(NoExc,
              [alive |-> TRUE, state |-> PY_LSM_OPENED, db |-> TRUE, cursor |-> TRUE,
               pos |-> lsm_csr_first(s), seek_mode |-> mode],
              <<Call("lsm_csr_open", 0), Call("lsm_csr_first", 0)>>, LSM_OK, "Cursor")

\* LSMCursor_first and LSMCursor_last: to is the entry the engine moves to
LSMCursor_move(c, fn, to, rc) ==
    LET chk == pylsm_ensure_csr_opened(c)
        calls == chk.calls \o <<Call(fn, 0)>>
    IN  IF c.state = PY_LSM_ITERATING THEN CRefused("RuntimeError", c, <<>>)
        ELSE IF chk.rc # 0 THEN CRefused(chk.exc, c, chk.calls)
        ELSE IF NullMutex(c) THEN CCrash(c, chk.calls)
        ELSE IF rc # LSM_OK THEN CRes(pylsm_error(rc), c, calls, rc, "NULL")
        ELSE CRes(chk.exc, [c EXCEPT !.pos = to, !.state = PY_LSM_OPENED],
                  calls \o <<Call("lsm_csr_valid", 0)>>, rc, Bool(lsm_csr_valid(to)))

LSMCursor_first(c, s, rc) == LSMCursor_move(c, "lsm_csr_first", lsm_csr_first(s), rc)
LSMCursor_last(c, s, rc) == LSMCursor_move(c, "lsm_csr_last", lsm_csr_last(s), rc)

\* LSMCursor_seek: parsed is whether the arguments parse ("O|i"), mode the
\* seek_mode argument (LSM_SEEK_EQ when left out), keyok whether the key has
\* the type of the Connection's mode
LSMCursor_seek(c, s, parsed, mode, keyok, k, rc) ==
    LET chk == pylsm_ensure_csr_opened(c)
        c1 == [c EXCEPT !.seek_mode = LSM_SEEK_EQ]
        c2 == [c EXCEPT !.seek_mode = mode]
        to == lsm_csr_seek(s, k, mode)
        calls == chk.calls \o <<Call("lsm_csr_seek", k)>>
    IN  IF c.state = PY_LSM_ITERATING THEN CRefused("RuntimeError", c, <<>>)
        ELSE IF chk.rc # 0 THEN CRefused(chk.exc, c, chk.calls)
        ELSE IF ~parsed THEN CRefused("TypeError", c1, chk.calls)
        ELSE IF mode \notin SeekModes THEN CRefused("ValueError", c2, chk.calls)
        ELSE IF ~c.db THEN CCrash(c2, chk.calls)
        ELSE IF ~keyok THEN CRefused("ValueError", c2, chk.calls)
        ELSE IF NullMutex(c) THEN CCrash(c2, chk.calls)
        ELSE IF rc # LSM_OK THEN CRes(pylsm_error(rc), c2, calls, rc, "NULL")
        ELSE CRes(chk.exc, [c2 EXCEPT !.pos = to],
                  calls \o <<Call("lsm_csr_valid", 0)>>, rc, Bool(lsm_csr_valid(to)))

\* LSMCursor_compare
LSMCursor_compare(c, parsed, keyok, k, rc) ==
    LET chk == pylsm_ensure_csr_opened(c)
        valid == chk.calls \o <<Call("lsm_csr_valid", 0)>>
        cmp == lsm_csr_cmp(c.pos, k)
        cmp_result == IF c.seek_mode = LSM_SEEK_GE THEN 0 - cmp ELSE cmp
    IN  IF chk.rc # 0 THEN CRefused(chk.exc, c, chk.calls)
        ELSE IF ~c.cursor THEN CCrash(c, chk.calls)
        ELSE IF ~lsm_csr_valid(c.pos) THEN CRefused("RuntimeError", c, valid)
        ELSE IF ~parsed THEN CRefused("TypeError", c, valid)
        ELSE IF ~keyok THEN CRefused("ValueError", c, valid)
        ELSE IF NullMutex(c) THEN CCrash(c, valid)
        ELSE IF rc # LSM_OK
        THEN CRes(pylsm_error(rc), c, valid \o <<Call("lsm_csr_cmp", k)>>, rc, "NULL")
        ELSE CRes(chk.exc, c, valid \o <<Call("lsm_csr_cmp", k)>>, rc,
                  CASE cmp_result < 0 -> "-1" [] cmp_result > 0 -> "1" [] OTHER -> "0")

\* LSMCursor_retrieve, LSMCursor_key and LSMCursor_value: what names the
\* object returned for a valid entry
LSMCursor_fetch(c, fn, what) ==
    LET chk == pylsm_ensure_csr_opened(c)
        valid == chk.calls \o <<Call("lsm_csr_valid", 0)>>
    IN  IF c.state = PY_LSM_ITERATING THEN CRefused("RuntimeError", c, <<>>)
        ELSE IF chk.rc # 0 THEN CRefused(chk.exc, c, chk.calls)
        ELSE IF ~c.cursor THEN CCrash(c, chk.calls)
        ELSE IF ~lsm_csr_valid(c.pos) THEN CRes(chk.exc, c, valid, LSM_OK, "None")
        ELSE IF NullMutex(c) THEN CCrash(c, valid)
        ELSE CRes(chk.exc, c, valid \o <<Call(fn, c.pos)>>, LSM_OK, what)

LSMCursor_retrieve(c) == LSMCursor_fetch(c, "pylsm_cursor_items_fetch", "entry")
LSMCursor_key(c) == LSMCursor_fetch(c, "pylsm_cursor_key_fetch", "key")
LSMCursor_value(c) == LSMCursor_fetch(c, "pylsm_cursor_value_fetch", "value")

\* the common part of LSMCursor_next and LSMCursor_previous, after the look
\* at the seek mode
LSMCursor_step(c, chk, fn, to, rc) ==
    LET valid == chk.calls \o <<Call("lsm_csr_valid", 0)>>
        calls == valid \o <<Call(fn, 0)>>
    IN  IF ~c.cursor THEN CCrash(c, chk.calls)
        ELSE IF ~lsm_csr_valid(c.pos) THEN CRes(chk.exc, c, valid, LSM_OK, "False")
        ELSE IF NullMutex(c) THEN CCrash(c, valid)
        ELSE IF rc # LSM_OK THEN CRes(pylsm_error(rc), c, calls, rc, "NULL")
        ELSE CRes(chk.exc, [c EXCEPT !.pos = to],
                  calls \o <<Call("lsm_csr_valid", 0)>>, rc, Bool(lsm_csr_valid(to)))

LSMCursor_next(c, s, rc) ==
    LET chk == pylsm_ensure_csr_opened(c)
    IN  IF c.state = PY_LSM_ITERATING THEN CRefused("RuntimeError", c, <<>>)
        ELSE IF chk.rc # 0 THEN CRefused(chk.exc, c, chk.calls)
        ELSE IF c.seek_mode = LSM_SEEK_EQ THEN CRes(chk.exc, c, chk.calls, LSM_OK, "False")
        ELSE LSMCursor_step(c, chk, "lsm_csr_next", lsm_csr_next(s, c.pos), rc)

LSMCursor_previous(c, s, rc) ==
    LET chk == pylsm_ensure_csr_opened(c)
    IN  IF c.state = PY_LSM_ITERATING THEN CRefused("RuntimeError", c, <<>>)
        ELSE IF chk.rc # 0 THEN CRefused(chk.exc, c, chk.calls)
        ELSE IF c.seek_mode = LSM_SEEK_EQ THEN CRefused("RuntimeError", c, chk.calls)
        ELSE LSMCursor_step(c, chk, "lsm_csr_prev", lsm_csr_prev(s, c.pos), rc)

\* LSMCursor_close: lsm_csr_close is called with self->cursor, NULL included
LSMCursor_close(c, rc) ==
    LET chk == pylsm_ensure_csr_opened(c)
        calls == chk.calls \o <<Call("lsm_csr_close", 0)>>
    IN  IF chk.rc # 0 THEN CRefused(chk.exc, c, chk.calls)
        ELSE IF rc # LSM_OK THEN CRes(pylsm_error(rc), c, calls, rc, "NULL")
        ELSE CRes(chk.exc,
                  [c EXCEPT !.db = FALSE, !.cursor = FALSE, !.pos = 0,
                            !.state = PY_LSM_CLOSED],
                  calls, rc, "None")

LSMCursor_ctx_enter(c) ==
    LET chk == pylsm_ensure_csr_opened(c)
    IN  IF c.state = PY_LSM_ITERATING THEN CRefused("RuntimeError", c, <<>>)
        ELSE IF chk.rc # 0 THEN CRefused(chk.exc, c, chk.calls)
        ELSE CRes(chk.exc, c, chk.calls, LSM_OK, "self")

\* LSMCursor_ctx_exit: the result of LSMCursor_close is dropped, an exception
\* it has set is raised
LSMCursor_ctx_exit(c, rc) ==
    LET r == LSMCursor_close(c, rc)
    IN  IF c.state = PY_LSM_CLOSED THEN CRes(NoExc, c, <<>>, LSM_OK, "None")
        ELSE [r EXCEPT !.ret = IF r.exc # NoExc THEN "NULL" ELSE "None"]

\* LSMCursor_dealloc: the object is gone afterwards
LSMCursor_dealloc(c) ==
    IF c.state # PY_LSM_CLOSED /\ c.cursor
    THEN CRes(NoExc, NoCsr, <<Call("lsm_csr_close", 0)>>, LSM_OK, "None")
    ELSE CRes(NoExc, NoCsr, <<>>, LSM_OK, "None")

\* --------------------------------------- SpecCsr: one caller and one Cursor
\* an OPENED Connection on a database of up to MaxKey entries
InitCsr ==
    /\ state = PY_LSM_OPENED
    /\ readonly = 0
    /\ tx_level = 0
    /\ lsm \in {[nTransOpen |-> 0, store |-> s, aTrans |-> <<>>] : s \in CsrStores}
    /\ txs = [h \in TxIds |-> NoTx]
    /\ last = [op |-> "init", h |-> 0, exceptional |-> FALSE, acted |-> "none",
               exc |-> NoExc, calls |-> <<>>, rc |-> LSM_OK, ret |-> "None",
               was |-> NoCsr]
    /\ gil = 0
    /\ lsm_mutex = 0
    /\ thr = [t \in Threads |-> Idle]
    /\ csr = NoCsr
    /\ binary = 0
    /\ view = NoView
    /\ logger = 0

\* the Cursor handler op has completed with r; was is the Cursor it was
\* called on. A process that crashed takes no further call.
CDone(op, r) ==
    /\ last.exc # Crash
    /\ last' = [op |-> op, h |-> 0, exceptional |-> FALSE, acted |-> "none",
                exc |-> r.exc, calls |-> r.calls, rc |-> r.rc, ret |-> r.ret,
                was |-> csr]
    /\ csr' = r.csr
    /\ UNCHANGED <<state, readonly, tx_level, lsm, txs, gil, lsm_mutex, thr, binary, view, logger>>

CsrCursor ==
    \E mode \in SeekModes \cup {BadMode}, rc1, rc2 \in EngineRc :
        /\ ~csr.alive
        /\ rc1 # LSM_OK => rc2 = LSM_OK
        /\ CDone("cursor", LSM_cursor(mode, lsm.store, rc1, rc2))

CsrFirst ==
    \E rc \in EngineRc :
        /\ csr.alive
        /\ CDone("first", LSMCursor_first(csr, lsm.store, rc))

CsrLast ==
    \E rc \in EngineRc :
        /\ csr.alive
        /\ CDone("last", LSMCursor_last(csr, lsm.store, rc))

CsrSeek ==
    \E parsed, keyok \in BOOLEAN, mode \in SeekModes \cup {BadMode},
       k \in SeekKeys, rc \in EngineRc :
        /\ csr.alive
        /\ ~parsed => (keyok /\ mode = LSM_SEEK_EQ /\ k = 0)
        /\ CDone("seek", LSMCursor_seek(csr, lsm.store, parsed, mode, keyok, k, rc))

CsrCompare ==
    \E parsed, keyok \in BOOLEAN, k \in SeekKeys, rc \in EngineRc :
        /\ csr.alive
        /\ ~parsed => (keyok /\ k = 0)
        /\ CDone("compare", LSMCursor_compare(csr, parsed, keyok, k, rc))

CsrRetrieve == csr.alive /\ CDone("retrieve", LSMCursor_retrieve(csr))
CsrKey == csr.alive /\ CDone("key", LSMCursor_key(csr))
CsrValue == csr.alive /\ CDone("value", LSMCursor_value(csr))

CsrNext ==
    \E rc \in EngineRc :
        /\ csr.alive
        /\ CDone("next", LSMCursor_next(csr, lsm.store, rc))

CsrPrevious ==
    \E rc \in EngineRc :
        /\ csr.alive
        /\ CDone("previous", LSMCursor_previous(csr, lsm.store, rc))

CsrClose ==
    \E rc \in EngineRc :
        /\ csr.alive
        /\ ~csr.cursor => rc = LSM_OK
        /\ CDone("close", LSMCursor_close(csr, rc))

CsrCtxEnter == csr.alive /\ CDone("ctx_enter", LSMCursor_ctx_enter(csr))

CsrCtxExit ==
    \E rc \in EngineRc :
        /\ csr.alive
        /\ ~csr.cursor => rc = LSM_OK
        /\ CDone("ctx_exit", LSMCursor_ctx_exit(csr, rc))

CsrDealloc == csr.alive /\ CDone("dealloc", LSMCursor_dealloc(csr))

NextCsr ==
    \/ CsrCursor
    \/ CsrFirst
    \/ CsrLast
    \/ CsrSeek
    \/ CsrCompare
    \/ CsrRetrieve
    \/ CsrKey
    \/ CsrValue
    \/ CsrNext
    \/ CsrPrevious
    \/ CsrClose
    \/ CsrCtxEnter
    \/ CsrCtxExit
    \/ CsrDealloc

SpecCsr == InitCsr /\ [][NextCsr]_vars

\* --------------------------------------------------- keys, values, codec
\* bound of the lookup scenarios: a value holds up to MaxValLen characters
MaxValLen == 1
SeqsUpTo(S, n) == UNION {[1..m -> S] : m \in 0..n}

\* Python objects: str (data: code points) and bytes (data: bytes); 'a' is
\* one byte in UTF-8 and 'e acute' two
PyStr(d) == [type |-> "str", data |-> d]
PyBytes(d) == [type |-> "bytes", data |-> d]
PyTrue == [type |-> "bool", data |-> <<1>>]
PyFalse == [type |-> "bool", data |-> <<0>>]
PyNone == [type |-> "None", data |-> <<>>]
PyNULL == [type |-> "NULL", data |-> <<>>]
StrChars == {97, 233}
ByteVals == {97, 195}
ValObjects == {PyStr(d) : d \in SeqsUpTo(StrChars, MaxValLen)}
              \cup {PyBytes(d) : d \in SeqsUpTo(ByteVals, MaxValLen)}

\* PyUnicode_AsUTF8AndSize: the UTF-8 bytes of a str
RECURSIVE Utf8(_)
Utf8(d) ==
    IF d = <<>> THEN <<>>
    ELSE (IF Head(d) < 128 THEN <<Head(d)>>
          ELSE <<192 + (Head(d) \div 64), 128 + (Head(d) % 64)>>) \o Utf8(Tail(d))

\* the code points of UTF-8 bytes; <<0>> for bytes that are not UTF-8
RECURSIVE Utf8Decode(_)
Utf8Decode(b) ==
    IF b = <<>> THEN <<>>
    ELSE IF Head(b) < 128
    THEN LET r == Utf8Decode(Tail(b)) IN IF r = <<0>> THEN r ELSE <<Head(b)>> \o r
    ELSE IF /\ Head(b) >= 194 /\ Head(b) < 224 /\ Len(b) >= 2
            /\ b[2] >= 128 /\ b[2] < 192
    THEN LET r == Utf8Decode(SubSeq(b, 3, Len(b)))
         IN  IF r = <<0>> THEN r ELSE <<(Head(b) - 192) * 64 + (b[2] - 128)>> \o r
    ELSE <<0>>

\* str_or_bytes_check: rc and the buffer handed to the engine
str_or_bytes_check(bin, obj) ==
    IF bin # 0
    THEN IF obj.type = "bytes" THEN [rc |-> 0, exc |-> NoExc, buff |-> obj.data]
         ELSE [rc |-> -1, exc |-> "ValueError", buff |-> <<>>]
    ELSE IF obj.type = "str" THEN [rc |-> 0, exc |-> NoExc, buff |-> Utf8(obj.data)]
         ELSE [rc |-> -1, exc |-> "ValueError", buff |-> <<>>]

\* mutant: the stored bytes handed back as code points, without decoding
Py_BuildValue_raw(bin, b) == IF bin # 0 THEN PyBytes(b) ELSE PyStr(b)

\* Py_BuildValue(self->binary ? "y#" : "s#", pValue, nValue)
Py_BuildValue(bin, b) ==
    IF bin # 0 THEN PyBytes(b)
    ELSE IF Utf8Decode(b) = <<0>> THEN PyNULL
    ELSE PyStr(Utf8Decode(b))

\* the values a database written through a Connection of mode bin holds
StoredVals(bin) ==
    {str_or_bytes_check(bin, o).buff : o \in {v \in ValObjects : str_or_bytes_check(bin, v).rc = 0}}
KvStores(bin) == UNION {[S -> StoredVals(bin)] : S \in SUBSET CsrKeys}

\* ---------------------------------------------- point lookups and updates
\* what a lookup or update leaves behind: as Res, and ret, the object the
\* handler returns (PyNULL: the error return)
KRes(exc, e, calls, rc, ret) ==
    [exc |-> exc, lsm |-> e, calls |-> calls, rc |-> rc, ret |-> ret]

\* the first code of rcs that is not LSM_OK among the first n, LSM_OK if none
FirstRc(rcs, n) ==
    IF \E i \in 1..n : rcs[i] # LSM_OK
    THEN rcs[CHOOSE i \in 1..n : rcs[i] # LSM_OK /\ \A j \in 1..(i - 1) : rcs[j] = LSM_OK]
    ELSE LSM_OK
\* the engine calls made when the calls of fns return rcs: up to the first
\* that fails
CallsMade(fns, k, rcs) ==
    LET n == IF \E i \in DOMAIN fns : rcs[i] # LSM_OK
             THEN CHOOSE i \in DOMAIN fns : rcs[i] # LSM_OK /\ \A j \in 1..(i - 1) : rcs[j] = LSM_OK
             ELSE Len(fns)
    IN  [i \in 1..n |-> Call(fns[i], k)]

NotFound == "not found"

\* mutant: a lookup that fetches the value in every mode
SkipsValue_never(seek_mode) == FALSE

\* pylsm_getitem leaves the value unfetched for this mode
SkipsValue(seek_mode) == seek_mode = LSM_SEEK_LEFAST

\* pylsm_getitem: rc (NotFound is its -1), pValue (the stored bytes; fetched
\* is FALSE while it is NULL) and the engine calls. calloc(nValue, 1)
\* returns a pointer also for nValue = 0.
pylsm_getitem(e, k, seek_mode, rcs) ==
    LET to == lsm_csr_seek(e.store, k, seek_mode)
    IN  IF rcs[1] # LSM_OK \/ rcs[2] # LSM_OK
        THEN [rc |-> FirstRc(rcs, 2), fetched |-> FALSE, pValue |-> <<>>,
              calls |-> CallsMade(<<"lsm_csr_open", "lsm_csr_seek">>, k, rcs)]
        ELSE IF ~lsm_csr_valid(to)
        THEN [rc |-> NotFound, fetched |-> FALSE, pValue |-> <<>>,
              calls |-> <<Call("lsm_csr_open", k), Call("lsm_csr_seek", k)>>]
        ELSE IF SkipsValue(seek_mode)
        THEN [rc |-> LSM_OK, fetched |-> FALSE, pValue |-> <<>>,
              calls |-> <<Call("lsm_csr_open", k), Call("lsm_csr_seek", k)>>]
        ELSE IF rcs[3] # LSM_OK
        THEN [rc |-> rcs[3], fetched |-> FALSE, pValue |-> <<>>,
              calls |-> <<Call("lsm_csr_open", k), Call("lsm_csr_seek", k),
                          Call("lsm_csr_value", to)>>]
        ELSE [rc |-> LSM_OK, fetched |-> TRUE, pValue |-> e.store[to],
              calls |-> <<Call("lsm_csr_open", k), Call("lsm_csr_seek", k),
                          Call("lsm_csr_value", to)>>]

\* pylsm_contains: rc (NotFound is its -1) and the engine calls
pylsm_contains(e, k, rcs) ==
    [rc |-> IF FirstRc(rcs, 2) # LSM_OK THEN FirstRc(rcs, 2)
            ELSE IF lsm_csr_valid(lsm_csr_seek(e.store, k, LSM_SEEK_EQ)) THEN LSM_OK
            ELSE NotFound,
     calls |-> CallsMade(<<"lsm_csr_open", "lsm_csr_seek">>, k, rcs)]

\* pylsm_delitem: rc (NotFound is its -1), the engine afterwards and the calls
pylsm_delitem(e, k, rcs) ==
    IF FirstRc(rcs, 2) # LSM_OK
    THEN [rc |-> FirstRc(rcs, 2), lsm |-> e,
          calls |-> CallsMade(<<"lsm_csr_open", "lsm_csr_seek">>, k, rcs)]
    ELSE IF ~lsm_csr_valid(lsm_csr_seek(e.store, k, LSM_SEEK_EQ))
    THEN [rc |-> NotFound, lsm |-> e,
          calls |-> <<Call("lsm_csr_open", k), Call("lsm_csr_seek", k)>>]
    ELSE [rc |-> rcs[3], lsm |-> After(e, lsm_delete(e, k), rcs[3]),
          calls |-> <<Call("lsm_csr_open", k), Call("lsm_csr_seek", k),
                      Call("lsm_delete", k)>>]

\* LSM_getitem for a key or a (key, seek_mode) pair, r being what
\* pylsm_getitem gives: keyok is whether the key
\* has the type of the Connection's mode, k the key, rcs the codes the engine
\* calls return. The result code is looked at only after `if (pValue ==
\* NULL) Py_RETURN_TRUE`.
LSM_getitem_result(bin, e, keyok, seek_mode, r) ==
        IF pylsm_ensure_opened # NoExc
        THEN KRes(pylsm_ensure_opened, e, <<>>, LSM_OK, PyNULL)
        ELSE IF seek_mode \notin SeekModes THEN KRes("ValueError", e, <<>>, LSM_OK, PyNULL)
        ELSE IF ~keyok THEN KRes("ValueError", e, <<>>, LSM_OK, PyNULL)
        ELSE IF r.rc = NotFound THEN KRes("KeyError", e, r.calls, LSM_OK, PyNULL)
        ELSE IF ~r.fetched THEN KRes(NoExc, e, r.calls, r.rc, PyTrue)
        ELSE IF pylsm_error(r.rc) # NoExc THEN KRes(pylsm_error(r.rc), e, r.calls, r.rc, PyNULL)
        ELSE LET v == Py_BuildValue(bin, r.pValue)
             IN  KRes(IF v = PyNULL THEN "UnicodeDecodeError" ELSE NoExc, e, r.calls, r.rc, v)

\* mutant: a lookup that seeks the key itself whatever the mode
LSM_getitem_key_exact(bin, e, keyok, k, seek_mode, rcs) ==
    LSM_getitem_result(bin, e, keyok, seek_mode, pylsm_getitem(e, k, LSM_SEEK_EQ, rcs))

LSM_getitem_key(bin, e, keyok, k, seek_mode, rcs) ==
    LSM_getitem_result(bin, e, keyok, seek_mode, pylsm_getitem(e, k, seek_mode, rcs))

\* LSM_contains for a key: the int it returns is 1 (True), 0 (False, also
\* with an exception set) or -1
LSM_contains_key(e, keyok, k, rcs) ==
    LET r == pylsm_contains(e, k, rcs)
    IN  IF pylsm_ensure_opened # NoExc
        THEN KRes(pylsm_ensure_opened, e, <<>>, LSM_OK, PyFalse)
        ELSE IF ~keyok THEN KRes("ValueError", e, <<>>, LSM_OK, PyFalse)
        ELSE IF r.rc = NotFound THEN KRes(NoExc, e, r.calls, LSM_OK, PyFalse)
        ELSE IF r.rc = LSM_OK THEN KRes(NoExc, e, r.calls, LSM_OK, PyTrue)
        ELSE KRes(pylsm_error(r.rc), e, r.calls, r.rc, PyNULL)

\* LSM_set_del_item for a key: db[k] = value, and del db[k] (deleting = TRUE,
\* value is NULL)
LSM_set_del_item_key(bin, e, keyok, k, deleting, value, rcs) ==
    LET val == str_or_bytes_check(bin, value)
        d == pylsm_delitem(e, k, rcs)
    IN  IF pylsm_ensure_writable # NoExc
        THEN KRes(pylsm_ensure_writable, e, <<>>, LSM_OK, PyNULL)
        ELSE IF ~keyok THEN KRes("ValueError", e, <<>>, LSM_OK, PyNULL)
        ELSE IF ~deleting /\ val.rc # 0 THEN KRes(val.exc, e, <<>>, LSM_OK, PyNULL)
        ELSE IF deleting
        THEN IF d.rc = NotFound THEN KRes("KeyError", e, d.calls, LSM_OK, PyNULL)
             ELSE KRes(pylsm_error(d.rc), d.lsm, d.calls, d.rc,
                       IF d.rc = LSM_OK THEN PyNone ELSE PyNULL)
        ELSE KRes(pylsm_error(rcs[1]), After(e, lsm_insert(e, k, val.buff), rcs[1]),
                  <<Call("lsm_insert", k)>>, rcs[1],
                  IF rcs[1] = LSM_OK THEN PyNone ELSE PyNULL)

\* the ends a range deletion is called with: None (-1), or a key below, at,
\* between or above the stored keys
RangeKeys == {-1} \cup SeekKeys

\* mutant: a range deletion that passes its start key for both ends
LSM_delete_range_keys_start(e, parsed, a, b, rc) ==
    IF pylsm_ensure_writable # NoExc THEN KRes(pylsm_ensure_writable, e, <<>>, LSM_OK, PyNULL)
    ELSE IF ~parsed THEN KRes("TypeError", e, <<>>, LSM_OK, PyNULL)
    ELSE KRes(pylsm_error(rc), After(e, lsm_delete_range(e, a, a), rc),
              <<Call("lsm_delete_range", <<a, a>>)>>, rc,
              IF rc = LSM_OK THEN PyNone ELSE PyNULL)

\* LSM_delete_range with both ends: PyArg_ParseTupleAndKeywords takes two
\* str (or bytes) objects, parsed is its result; one lsm_delete_range call
LSM_delete_range_keys(e, parsed, a, b, rc) ==
    IF pylsm_ensure_writable # NoExc THEN KRes(pylsm_ensure_writable, e, <<>>, LSM_OK, PyNULL)
    ELSE IF ~parsed THEN KRes("TypeError", e, <<>>, LSM_OK, PyNULL)
    ELSE KRes(pylsm_error(rc), After(e, lsm_delete_range(e, a, b), rc),
              <<Call("lsm_delete_range", <<a, b>>)>>, rc,
              IF rc = LSM_OK THEN PyNone ELSE PyNULL)

\* LSM_set_del_item with a slice: db[a:b] = value is not supported, a step
\* and a missing end are rejected, del db[a:b] is one lsm_delete_range call
LSM_set_del_item_slice(e, deleting, a, b, stepped, keysok, rc) ==
    IF pylsm_ensure_writable # NoExc THEN KRes(pylsm_ensure_writable, e, <<>>, LSM_OK, PyNULL)
    ELSE IF ~deleting THEN KRes("NotImplementedError", e, <<>>, LSM_OK, PyNULL)
    ELSE IF stepped THEN KRes("ValueError", e, <<>>, LSM_OK, PyNULL)
    ELSE IF a = -1 \/ b = -1 THEN KRes("ValueError", e, <<>>, LSM_OK, PyNULL)
    ELSE IF ~keysok THEN KRes("ValueError", e, <<>>, LSM_OK, PyNULL)
    ELSE KRes(pylsm_error(rc), After(e, lsm_delete_range(e, a, b), rc),
              <<Call("lsm_delete_range", <<a, b>>)>>, rc,
              IF rc = LSM_OK THEN PyNone ELSE PyNULL)

\* ------------------------------ SpecKv: one caller, lookups and updates
\* the results three engine calls can have: at most one of them fails
Rcs3 == {f \in [1..3 -> EngineRc] : Cardinality({i \in 1..3 : f[i] # LSM_OK}) <= 1}
AllOk == [i \in 1..3 |-> LSM_OK]

\* an OPENED Connection, text or binary, on a database of up to MaxKey entries
InitKv ==
    /\ state = PY_LSM_OPENED
    /\ readonly = 0
    /\ tx_level = 0
    /\ binary \in {0, 1}
    /\ lsm \in {[nTransOpen |-> 0, store |-> s, aTrans |-> <<>>] : s \in KvStores(binary)}
    /\ txs = [h \in TxIds |-> NoTx]
    /\ last = [op |-> "init", h |-> 0, exceptional |-> FALSE, acted |-> "none",
               exc |-> NoExc, calls |-> <<>>, rc |-> LSM_OK, ret |-> PyNone,
               key |-> 0, seek_mode |-> LSM_SEEK_EQ, value |-> PyNone]
    /\ gil = 0
    /\ lsm_mutex = 0
    /\ thr = [t \in Threads |-> Idle]
    /\ csr = NoCsr
    /\ view = NoView
    /\ logger = 0

\* the handler op has completed with r; key, seek_mode and value are the
\* arguments it was called with
KDone(op, k, mode, value, r) ==
    /\ last' = [op |-> op, h |-> 0, exceptional |-> FALSE, acted |-> "none",
                exc |-> r.exc, calls |-> r.calls, rc |-> r.rc, ret |-> r.ret,
                key |-> k, seek_mode |-> mode, value |-> value]
    /\ lsm' = r.lsm
    /\ UNCHANGED <<state, readonly, tx_level, txs, gil, lsm_mutex, thr, csr, binary, view, logger>>

KvGet ==
    \E keyok \in BOOLEAN, k \in SeekKeys, mode \in SeekModes \cup {BadMode}, rcs \in Rcs3 :
        /\ ~keyok => (k = 0 /\ rcs = AllOk)
        /\ KDone("getitem", k, mode, PyNone,
                 LSM_getitem_key(binary, lsm, keyok, k, mode, rcs))

KvContains ==
    \E keyok \in BOOLEAN, k \in SeekKeys, rcs \in Rcs3 :
        /\ ~keyok => (k = 0 /\ rcs = AllOk)
        /\ rcs[3] = LSM_OK
        /\ KDone("contains", k, LSM_SEEK_EQ, PyNone, LSM_contains_key(lsm, keyok, k, rcs))

KvSet ==
    \E keyok \in BOOLEAN, k \in CsrKeys, value \in ValObjects, rc \in EngineRc :
        /\ ~keyok => rc = LSM_OK
        /\ KDone("setitem", k, LSM_SEEK_EQ, value,
                 LSM_set_del_item_key(binary, lsm, keyok, k, FALSE, value,
                                      [i \in 1..3 |-> IF i = 1 THEN rc ELSE LSM_OK]))

KvDel ==
    \E keyok \in BOOLEAN, k \in SeekKeys, rcs \in Rcs3 :
        /\ ~keyok => (k = 0 /\ rcs = AllOk)
        /\ KDone("delitem", k, LSM_SEEK_EQ, PyNone,
                 LSM_set_del_item_key(binary, lsm, keyok, k, TRUE, PyNone, rcs))

\* a range deletion op has completed with r; key and stop are the two ends
\* it was called with
KRangeDone(op, a, b, r) ==
    /\ last' = [op |-> op, h |-> 0, exceptional |-> FALSE, acted |-> "none",
                exc |-> r.exc, calls |-> r.calls, rc |-> r.rc, ret |-> r.ret,
                key |-> a, seek_mode |-> LSM_SEEK_EQ, value |-> PyNone, stop |-> b]
    /\ lsm' = r.lsm
    /\ UNCHANGED <<state, readonly, tx_level, txs, gil, lsm_mutex, thr, csr, binary, view, logger>>

KvDeleteRange ==
    \E parsed \in BOOLEAN, a, b \in SeekKeys, rc \in EngineRc :
        /\ ~parsed => (a = 0 /\ b = 0 /\ rc = LSM_OK)
        /\ KRangeDone("delete_range", a, b, LSM_delete_range_keys(lsm, parsed, a, b, rc))

KvSetDelSlice ==
    \E deleting, stepped, keysok \in BOOLEAN, a, b \in RangeKeys, rc \in EngineRc :
        /\ (~deleting \/ stepped \/ ~keysok \/ a = -1 \/ b = -1) => rc = LSM_OK
        /\ (~deleting \/ stepped \/ ~keysok) => (a = 0 /\ b = 0)
        /\ (~deleting => ~stepped /\ keysok) /\ (stepped => keysok)
        /\ KRangeDone(IF deleting THEN "delslice" ELSE "setslice", a, b,
                      LSM_set_del_item_slice(lsm, deleting, a, b, stepped, keysok, rc))

NextKv ==
    \/ KvGet
    \/ KvContains
    \/ KvSet
    \/ KvDel
    \/ KvDeleteRange
    \/ KvSetDelSlice

SpecKv == InitKv /\ [][NextKv]_vars

\* ------------------------------------------------------ views and slices
\* bounds of the iteration scenarios: the database holds keys out of
\* 1..MaxViewKey, a slice steps by up to MaxStep in either direction
MaxViewKey == 4
MaxStep == 3
ViewKeys == 1..MaxViewKey
ViewStores == UNION {[S -> {<<97>>}] : S \in SUBSET ViewKeys}
\* the bounds a slice is made with: None (-1), or a key below, at or above
\* the stored keys; and its step (None is 1)
SliceBounds == {-1} \cup (0..(MaxViewKey + 1))
SliceSteps == (0 - MaxStep)..MaxStep
PY_LSM_SLICE_FORWARD == "PY_LSM_SLICE_FORWARD"
PY_LSM_SLICE_BACKWARD == "PY_LSM_SLICE_BACKWARD"
IterKinds == {"keys", "values", "items"}

Abs(x) == IF x < 0 THEN 0 - x ELSE x

\* what a view handler leaves behind: as CRes, with the view; ret is the key
\* of the entry handed out (0: none)
VRes(exc, v, calls, rc, ret) ==
    [exc |-> exc, view |-> v, calls |-> calls, rc |-> rc, ret |-> ret]

Unclean(v) == [v EXCEPT !.clean = FALSE]

\* LSM_keys, LSM_values, LSM_items with LSMIterView_init
LSM_view(kind) ==
    IF pylsm_ensure_opened # NoExc THEN VRes(pylsm_ensure_opened, NoView, <<>>, LSM_OK, 0)
    ELSE VRes(NoExc, [NoView EXCEPT !.alive = TRUE, !.kind = kind], <<>>, LSM_OK, 0)

\* LSMSliceView_init, from LSM_getitem with a slice: a step below 1 is
\* backward, and backward exchanges the two bounds
LSMSliceView_init(start, stop, step, stepok, keysok) ==
    LET direction == IF step > 0 THEN PY_LSM_SLICE_FORWARD ELSE PY_LSM_SLICE_BACKWARD
    IN  IF pylsm_ensure_opened # NoExc
        THEN VRes(pylsm_ensure_opened, NoView, <<>>, LSM_OK, 0)
        ELSE IF ~stepok \/ ~keysok THEN VRes("ValueError", NoView, <<>>, LSM_OK, 0)
        ELSE VRes(NoExc,
                  [NoView EXCEPT !.alive = TRUE, !.kind = "slice", !.step = step,
                                 !.direction = direction,
                                 !.start = IF direction = PY_LSM_SLICE_FORWARD
                                           THEN start ELSE stop,
                                 !.stop = IF direction = PY_LSM_SLICE_FORWARD
                                          THEN stop ELSE start],
                  <<>>, LSM_OK, 0)

\* mutant: an __iter__ that starts an exhausted view again
View_iter_restart(v, fn, to, rc1, rc2) ==
    IF pylsm_ensure_opened # NoExc THEN VRes(pylsm_ensure_opened, v, <<>>, LSM_OK, 0)
    ELSE IF v.state \notin {PY_LSM_INITIALIZED, PY_LSM_CLOSED}
    THEN VRes(NoExc, v, <<>>, LSM_OK, 0)
    ELSE VRes(NoExc, [v EXCEPT !.state = PY_LSM_OPENED, !.cursor = TRUE, !.pos = to,
                               !.counter = 0],
              <<Call("lsm_csr_open", 0), Call(fn, 0)>>, LSM_OK, 0)

\* the part LSMIterView_iter and LSMSliceView_iter share: the state is set
\* before the engine calls, lsm_csr_open and the call fn that moves the
\* cursor to entry to
View_iter(v, fn, to, rc1, rc2) ==
    IF pylsm_ensure_opened # NoExc THEN VRes(pylsm_ensure_opened, v, <<>>, LSM_OK, 0)
    ELSE IF v.state # PY_LSM_INITIALIZED THEN VRes(NoExc, v, <<>>, LSM_OK, 0)
    ELSE IF rc1 # LSM_OK
    THEN VRes(pylsm_error(rc1), Unclean([v EXCEPT !.state = PY_LSM_OPENED]),
              <<Call("lsm_csr_open", 0)>>, rc1, 0)
    ELSE IF rc2 # LSM_OK
    THEN VRes(pylsm_error(rc2),
              Unclean([v EXCEPT !.state = PY_LSM_OPENED, !.cursor = TRUE]),
              <<Call("lsm_csr_open", 0), Call(fn, 0)>>, rc2, 0)
    ELSE VRes(NoExc, [v EXCEPT !.state = PY_LSM_OPENED, !.cursor = TRUE, !.pos = to],
              <<Call("lsm_csr_open", 0), Call(fn, 0)>>, LSM_OK, 0)

\* mutant: an iteration that starts at the last entry
LSMIterView_iter_last(v, s, rc1, rc2) ==
    View_iter(v, "lsm_csr_last", lsm_csr_last(s), rc1, rc2)

LSMIterView_iter(v, s, rc1, rc2) ==
    View_iter(v, "lsm_csr_first", lsm_csr_first(s), rc1, rc2)

\* mutant: a start bound that is always sought with LSM_SEEK_LE
pylsm_seek_mode_direction_le(direction) == LSM_SEEK_LE

pylsm_seek_mode_direction(direction) ==
    IF direction = PY_LSM_SLICE_FORWARD THEN LSM_SEEK_GE ELSE LSM_SEEK_LE

\* mutant: a slice without start bound that always begins at the first entry
LSMSliceView_iter_first(v, s, rc1, rc2) ==
    IF v.start # -1
    THEN View_iter(v, "lsm_csr_seek",
                   lsm_csr_seek(s, v.start, pylsm_seek_mode_direction(v.direction)),
                   rc1, rc2)
    ELSE View_iter(v, "lsm_csr_first", lsm_csr_first(s), rc1, rc2)

\* LSMSliceView_iter with pylsm_slice_view_iter: a seek to the start bound
\* in the mode of the direction, or the first or last entry
LSMSliceView_iter(v, s, rc1, rc2) ==
    IF v.start # -1
    THEN View_iter(v, "lsm_csr_seek",
                   lsm_csr_seek(s, v.start, pylsm_seek_mode_direction(v.direction)),
                   rc1, rc2)
    ELSE IF v.direction = PY_LSM_SLICE_FORWARD
    THEN View_iter(v, "lsm_csr_first", lsm_csr_first(s), rc1, rc2)
    ELSE View_iter(v, "lsm_csr_last", lsm_csr_last(s), rc1, rc2)

\* LSMKeysView_next, LSMValuesView_next, LSMItemsView_next: the entry under
\* the cursor is fetched, then the cursor moves on. Only LSMKeysView_next
\* looks at the state; the other two go on to lsm_csr_valid with the cursor
\* they have, NULL before the first __iter__.
LSMIterView_next(v, s, rc) ==
    IF pylsm_ensure_opened # NoExc THEN VRes(pylsm_ensure_opened, v, <<>>, LSM_OK, 0)
    ELSE IF v.kind = "keys" /\ v.state # PY_LSM_OPENED
    THEN VRes("RuntimeError", v, <<>>, LSM_OK, 0)
    ELSE IF ~v.cursor THEN VRes(Crash, v, <<>>, LSM_OK, 0)
    ELSE IF ~lsm_csr_valid(v.pos)
    THEN VRes("StopIteration", [v EXCEPT !.state = PY_LSM_CLOSED],
              <<Call("lsm_csr_valid", 0)>>, LSM_OK, 0)
    ELSE IF rc # LSM_OK
    THEN VRes(pylsm_error(rc), Unclean(v),
              <<Call("lsm_csr_valid", 0), Call("lsm_csr_next", 0)>>, rc, 0)
    ELSE VRes(NoExc, [v EXCEPT !.pos = lsm_csr_next(s, v.pos), !.out = Append(@, v.pos)],
              <<Call("lsm_csr_valid", 0), Call("lsm_csr_next", 0)>>, rc, v.pos)

\* the slice has run out: the -1 of pylsm_slice_first and pylsm_slice_next
Exhausted == "exhausted"

\* mutant: a stop bound that excludes the entry of the stop key
StopPassed_at(direction, cmp_res) ==
    \/ direction = PY_LSM_SLICE_FORWARD /\ cmp_res >= 0
    \/ direction = PY_LSM_SLICE_BACKWARD /\ cmp_res <= 0

\* the cursor has passed the stop bound: cmp_res is lsm_csr_cmp of the
\* cursor's key with the stop key
StopPassed(direction, cmp_res) ==
    \/ direction = PY_LSM_SLICE_FORWARD /\ cmp_res > 0
    \/ direction = PY_LSM_SLICE_BACKWARD /\ cmp_res < 0

\* mutant: a slice that hands out every entry it passes
StepLands_always(counter, step) == TRUE

\* (self->counter % self->step) == 0, for a step that is not 0
StepLands(counter, step) == counter % Abs(step) = 0

\* pylsm_slice_first: the entry the cursor stands on after __iter__
pylsm_slice_first(v, rc) ==
    IF v.stop # -1 /\ rc # LSM_OK THEN [rc |-> rc, pos |-> v.pos, counter |-> v.counter]
    ELSE IF v.stop # -1 /\ StopPassed(v.direction, lsm_csr_cmp(v.pos, v.stop))
    THEN [rc |-> Exhausted, pos |-> v.pos, counter |-> v.counter]
    ELSE IF ~lsm_csr_valid(v.pos) THEN [rc |-> Exhausted, pos |-> v.pos, counter |-> v.counter]
    ELSE [rc |-> LSM_OK, pos |-> v.pos, counter |-> v.counter]

\* the loop of pylsm_slice_next with every engine call succeeding. A step of
\* 0 divides by zero: the process traps (div0 = "trap"), or the remainder is
\* not 0 and the loop goes on (div0 = "go on")
RECURSIVE SliceLoop(_, _, _, _, _)
SliceLoop(s, v, pos, counter, div0) ==
    LET to == IF v.direction = PY_LSM_SLICE_FORWARD
              THEN lsm_csr_next(s, pos) ELSE lsm_csr_prev(s, pos)
    IN  IF ~lsm_csr_valid(pos) THEN [rc |-> Exhausted, pos |-> pos, counter |-> counter]
        ELSE IF ~lsm_csr_valid(to) THEN [rc |-> Exhausted, pos |-> to, counter |-> counter]
        ELSE IF v.stop # -1 /\ StopPassed(v.direction, lsm_csr_cmp(to, v.stop))
        THEN [rc |-> Exhausted, pos |-> to, counter |-> counter]
        ELSE IF v.step = 0
        THEN IF div0 = "trap" THEN [rc |-> Crash, pos |-> to, counter |-> counter + 1]
             ELSE SliceLoop(s, v, to, counter + 1, div0)
        ELSE IF StepLands(counter + 1, v.step)
        THEN [rc |-> LSM_OK, pos |-> to, counter |-> counter + 1]
        ELSE SliceLoop(s, v, to, counter + 1, div0)

\* pylsm_slice_next: rc is the code of its first engine call
pylsm_slice_next(s, v, rc, div0) ==
    IF rc # LSM_OK THEN [rc |-> rc, pos |-> v.pos, counter |-> v.counter]
    ELSE SliceLoop(s, v, v.pos, v.counter, div0)

\* LSMSliceView_next
LSMSliceView_next(v, s, rc, div0) ==
    LET r == IF v.state = PY_LSM_OPENED THEN pylsm_slice_first(v, rc)
             ELSE pylsm_slice_next(s, v, rc, div0)
        v1 == [v EXCEPT !.state = PY_LSM_ITERATING, !.pos = r.pos, !.counter = r.counter]
        calls == <<Call("lsm_csr_valid", 0),
                   Call(IF v.state = PY_LSM_OPENED THEN "pylsm_slice_first"
                        ELSE "pylsm_slice_next", 0)>>
    IN  IF pylsm_ensure_opened # NoExc THEN VRes(pylsm_ensure_opened, v, <<>>, LSM_OK, 0)
        ELSE IF v.state = PY_LSM_CLOSED THEN VRes("StopIteration", v, <<>>, LSM_OK, 0)
        ELSE IF v.state = PY_LSM_INITIALIZED THEN VRes("RuntimeError", v, <<>>, LSM_OK, 0)
        ELSE IF ~v.cursor THEN VRes(Crash, v, <<>>, LSM_OK, 0)
        ELSE IF ~lsm_csr_valid(v.pos)
        THEN VRes("StopIteration", [v EXCEPT !.state = PY_LSM_CLOSED],
                  <<Call("lsm_csr_valid", 0)>>, LSM_OK, 0)
        ELSE IF r.rc = Exhausted
        THEN VRes("StopIteration", [v1 EXCEPT !.state = PY_LSM_CLOSED], calls, LSM_OK, 0)
        ELSE IF r.rc = Crash THEN VRes(Crash, v1, calls, LSM_OK, 0)
        ELSE IF r.rc # LSM_OK THEN VRes(pylsm_error(r.rc), Unclean(v1), calls, r.rc, 0)
        ELSE IF ~lsm_csr_valid(r.pos)
        THEN VRes("StopIteration", [v1 EXCEPT !.state = PY_LSM_CLOSED], calls, LSM_OK, 0)
        ELSE VRes(NoExc, [v1 EXCEPT !.out = Append(@, r.pos)], calls, LSM_OK, r.pos)

\* LSMIterView_dealloc and LSMSliceView_dealloc: the object is gone afterwards
View_dealloc(v) ==
    IF v.cursor THEN VRes(NoExc, NoView, <<Call("lsm_csr_close", 0)>>, LSM_OK, 0)
    ELSE VRes(NoExc, NoView, <<>>, LSM_OK, 0)

\* ---------------------------------- SpecView: one caller and one view
\* an OPENED Connection on a database of up to MaxViewKey entries that is
\* not written to
InitView ==
    /\ state = PY_LSM_OPENED
    /\ readonly = 0
    /\ tx_level = 0
    /\ binary = 0
    /\ lsm \in {[nTransOpen |-> 0, store |-> s, aTrans |-> <<>>] : s \in ViewStores}
    /\ txs = [h \in TxIds |-> NoTx]
    /\ last = [op |-> "init", h |-> 0, exceptional |-> FALSE, acted |-> "none",
               exc |-> NoExc, calls |-> <<>>, rc |-> LSM_OK, ret |-> 0]
    /\ gil = 0
    /\ lsm_mutex = 0
    /\ thr = [t \in Threads |-> Idle]
    /\ csr = NoCsr
    /\ view = NoView
    /\ logger = 0

\* the view handler op has completed with r. A process that crashed takes
\* no further call.
VDone(op, r) ==
    /\ last.exc # Crash
    /\ last' = [op |-> op, h |-> 0, exceptional |-> FALSE, acted |-> "none",
                exc |-> r.exc, calls |-> r.calls, rc |-> r.rc, ret |-> r.ret]
    /\ view' = r.view
    /\ UNCHANGED <<state, readonly, tx_level, lsm, txs, gil, lsm_mutex, thr, csr, binary, logger>>

ViewNew ==
    \E kind \in IterKinds :
        /\ ~view.alive
        /\ VDone(kind, LSM_view(kind))

ViewSlice ==
    \E start, stop \in SliceBounds, step \in SliceSteps, stepok, keysok \in BOOLEAN :
        /\ ~view.alive
        /\ ~(stepok /\ keysok) => (start = -1 /\ stop = -1 /\ step = 1 /\ (stepok \/ keysok))
        /\ VDone("slice", LSMSliceView_init(start, stop, step, stepok, keysok))

ViewIter ==
    \E rc1, rc2 \in EngineRc :
        /\ view.alive
        /\ rc1 # LSM_OK => rc2 = LSM_OK
        /\ VDone("iter", IF view.kind = "slice"
                         THEN LSMSliceView_iter(view, lsm.store, rc1, rc2)
                         ELSE LSMIterView_iter(view, lsm.store, rc1, rc2))

ViewNext ==
    \E rc \in EngineRc, div0 \in {"trap", "go on"} :
        /\ view.alive
        /\ (view.kind # "slice" \/ view.step # 0) => div0 = "trap"
        /\ VDone("next", IF view.kind = "slice"
                         THEN LSMSliceView_next(view, lsm.store, rc, div0)
                         ELSE LSMIterView_next(view, lsm.store, rc))

ViewDealloc == view.alive /\ VDone("dealloc", View_dealloc(view))

NextView ==
    \/ ViewNew
    \/ ViewSlice
    \/ ViewIter
    \/ ViewNext
    \/ ViewDealloc

SpecView == InitView /\ [][NextView]_vars

\* ------------------- SpecLock: the interpreter lock and the mutex, by step
\* Threads share one OPENED Connection. A handler starts under the
\* interpreter lock (LK_Start), waits in LSM_MutexLock (LK_Lock), is inside
\* the engine, where the engine may call pylsm_logger (LK_Log, LK_LogEnsure,
\* LK_LogRelease), comes back from the engine on one of its paths (LK_Return),
\* takes the interpreter lock again if it had released it (LK_EndAllow), and
\* returns (LK_Finish).
LockOps == {"insert", "slice_next", "iter", "keys_next", "compare"}

\* the handlers that call LSM_MutexLock between Py_BEGIN_ALLOW_THREADS and
\* Py_END_ALLOW_THREADS; the others call it holding the interpreter lock
AllowsThreads(op) == op \in {"insert", "slice_next"}

\* the ways from LSM_MutexLock to the return of a handler: every engine call
\* succeeds ("ok"), the first fails or finds nothing to return ("fail1"), or
\* the second fails ("fail2")
Paths(op) == IF op \in {"iter", "keys_next"} THEN {"ok", "fail1", "fail2"}
             ELSE {"ok", "fail1"}

\* mutant: handlers that release the mutex on their successful path only
LeavesMutex_ok(op, path) == path = "ok"

\* LSM_MutexLeave is called on the path: each return that follows
\* LSM_MutexLock in a handler is preceded by it
LeavesMutex(op, path) == path \in Paths(op)

\* a thread in no handler; logged: pylsm_logger has run in the engine call
LockIdle == [op |-> "idle", pos |-> "idle", path |-> "none", logged |-> FALSE]

InitLock ==
    /\ state = PY_LSM_OPENED
    /\ readonly = 0
    /\ tx_level = 0
    /\ lsm = [nTransOpen |-> 0, store |-> EmptyStore, aTrans |-> <<>>]
    /\ txs = [h \in TxIds |-> NoTx]
    /\ last = [op |-> "init", t |-> 0, path |-> "none", logged |-> FALSE]
    /\ gil = 0
    /\ lsm_mutex = 0
    /\ thr = [t \in Threads |-> LockIdle]
    /\ csr = NoCsr
    /\ binary = 0
    /\ view = NoView
    /\ logger \in {0, 1}

LockFrame == UNCHANGED <<state, readonly, tx_level, lsm, txs, csr, binary, view, logger>>

\* the handler takes the interpreter lock, makes its checks and comes to
\* LSM_MutexLock, after Py_BEGIN_ALLOW_THREADS where it has one
LK_Start(t) ==
    \E op \in LockOps :
        /\ thr[t].pos = "idle"
        /\ gil = 0
        /\ gil' = IF AllowsThreads(op) THEN 0 ELSE t
        /\ thr' = [thr EXCEPT ![t] = [LockIdle EXCEPT !.op = op, !.pos = "lock"]]
        /\ UNCHANGED <<last, lsm_mutex>>
        /\ LockFrame

\* LSM_MutexLock returns
LK_Lock(t) ==
    /\ thr[t].pos = "lock"
    /\ lsm_mutex = 0
    /\ lsm_mutex' = t
    /\ thr' = [thr EXCEPT ![t].pos = "in_engine"]
    /\ UNCHANGED <<last, gil>>
    /\ LockFrame

\* the engine calls pylsm_logger, which with a callback configured calls
\* PyGILState_Ensure: it goes on if the thread holds the interpreter lock,
\* and waits for it otherwise
LK_Log(t) ==
    /\ thr[t].pos = "in_engine"
    /\ logger = 1
    /\ ~thr[t].logged
    /\ thr' = [thr EXCEPT ![t].pos = IF gil = t THEN "log" ELSE "log_wait"]
    /\ UNCHANGED <<last, gil, lsm_mutex>>
    /\ LockFrame

\* PyGILState_Ensure returns
LK_LogEnsure(t) ==
    /\ thr[t].pos = "log_wait"
    /\ gil = 0
    /\ gil' = t
    /\ thr' = [thr EXCEPT ![t].pos = "log"]
    /\ UNCHANGED <<last, lsm_mutex>>
    /\ LockFrame

\* the callback has run and PyGILState_Release puts the interpreter lock
\* back as PyGILState_Ensure found it
LK_LogRelease(t) ==
    /\ thr[t].pos = "log"
    /\ gil' = IF AllowsThreads(thr[t].op) THEN 0 ELSE gil
    /\ thr' = [thr EXCEPT ![t].pos = "in_engine", ![t].logged = TRUE]
    /\ UNCHANGED <<last, lsm_mutex>>
    /\ LockFrame

\* the engine calls are over on one of the paths of the handler
LK_Return(t) ==
    \E path \in Paths(thr[t].op) :
        /\ thr[t].pos = "in_engine"
        /\ lsm_mutex' = IF LeavesMutex(thr[t].op, path) /\ lsm_mutex = t THEN 0
                        ELSE lsm_mutex
        /\ thr' = [thr EXCEPT ![t].path = path,
                              ![t].pos = IF AllowsThreads(thr[t].op) THEN "wait_gil"
                                         ELSE "finish"]
        /\ UNCHANGED <<last, gil>>
        /\ LockFrame

\* Py_END_ALLOW_THREADS returns
LK_EndAllow(t) ==
    /\ thr[t].pos = "wait_gil"
    /\ gil = 0
    /\ gil' = t
    /\ thr' = [thr EXCEPT ![t].pos = "finish"]
    /\ UNCHANGED <<last, lsm_mutex>>
    /\ LockFrame

\* the handler returns to the interpreter, which lets other threads run
LK_Finish(t) ==
    /\ thr[t].pos = "finish"
    /\ gil' = 0
    /\ last' = [op |-> thr[t].op, t |-> t, path |-> thr[t].path,
                logged |-> thr[t].logged]
    /\ thr' = [thr EXCEPT ![t] = LockIdle]
    /\ UNCHANGED lsm_mutex
    /\ LockFrame

NextLock ==
    \E t \in Threads :
        \/ LK_Start(t)
        \/ LK_Lock(t)
        \/ LK_Log(t)
        \/ LK_LogEnsure(t)
        \/ LK_LogRelease(t)
        \/ LK_Return(t)
        \/ LK_EndAllow(t)
        \/ LK_Finish(t)

SpecLock == InitLock /\ [][NextLock]_vars

\* ------------------------------- SpecSnapshot: src/src/lsm.c transactions
\* The earlier snapshot of the binding tracks the level differently from
\* part_001: LSM_commit lowers tx_level before its engine call, LSM_rollback
\* lowers it after the call and before the look at the result code, and both
\* raise a negative level to 0 only on the path of a call that succeeded.
\* The three handlers test the state only (no read-only check).

\* the least level SpecSnapshot lets the tracked level sink to
MinSnapshotLevel == 0 - MaxLevel

\* the level the engine works with: a negative iLevel stands for one less
\* than the number of open transactions
lsm_level(e, iLevel) ==
    IF iLevel >= 0 THEN iLevel
    ELSE IF e.nTransOpen > 0 THEN e.nTransOpen - 1 ELSE 0

snapshot_ensure_opened(st) == IF st = PY_LSM_OPENED THEN NoExc ELSE "RuntimeError"

snapshot_LSM_begin(st, e, txl, rc) ==
    IF snapshot_ensure_opened(st) # NoExc
    THEN Refused(snapshot_ensure_opened(st), e, txl)
    ELSE LET level == txl + 1
         IN  Res(pylsm_error(rc), After(e, lsm_begin(e, level), rc),
                 IF rc = LSM_OK THEN level ELSE txl,
                 <<Call("lsm_begin", level)>>, rc)

snapshot_LSM_commit(st, e, txl, rc) ==
    IF snapshot_ensure_opened(st) # NoExc
    THEN Refused(snapshot_ensure_opened(st), e, txl)
    ELSE LET level == txl - 1
         IN  Res(pylsm_error(rc),
                 After(e, lsm_commit(e, lsm_level(e, level)), rc),
                 IF rc = LSM_OK THEN Clamp(level) ELSE level,
                 <<Call("lsm_commit", level)>>, rc)

snapshot_LSM_rollback(st, e, txl, rc) ==
    IF snapshot_ensure_opened(st) # NoExc
    THEN Refused(snapshot_ensure_opened(st), e, txl)
    ELSE LET level == txl - 1
         IN  Res(pylsm_error(rc),
                 After(e, lsm_rollback(e, lsm_level(e, txl)), rc),
                 IF rc = LSM_OK THEN Clamp(level) ELSE level,
                 <<Call("lsm_rollback", txl)>>, rc)

InitSnapshot ==
    /\ state \in {PY_LSM_INITIALIZED, PY_LSM_OPENED}
    /\ readonly = 0
    /\ tx_level = 0
    /\ lsm \in {[nTransOpen |-> 0, store |-> s, aTrans |-> <<>>] : s \in Stores}
    /\ txs = [h \in TxIds |-> NoTx]
    /\ last = [op |-> "init", h |-> 0, exceptional |-> FALSE, acted |-> "none",
               exc |-> NoExc, calls |-> <<>>, rc |-> LSM_OK]
    /\ gil = 0
    /\ lsm_mutex = 0
    /\ thr = [t \in Threads |-> Idle]
    /\ csr = NoCsr
    /\ binary = 0
    /\ view = NoView
    /\ logger = 0

SnapshotDone(op, r) ==
    /\ last' = [op |-> op, h |-> 0, exceptional |-> FALSE, acted |-> "none",
                exc |-> r.exc, calls |-> r.calls, rc |-> r.rc]
    /\ lsm' = r.lsm
    /\ tx_level' = r.tx_level
    /\ UNCHANGED <<state, readonly, txs>>
    /\ Single

SnapshotBegin ==
    \E rc \in EngineRc :
        /\ tx_level < MaxLevel
        /\ SnapshotDone("begin", snapshot_LSM_begin(state, lsm, tx_level, rc))

SnapshotCommit ==
    \E rc \in EngineRc :
        /\ tx_level > MinSnapshotLevel
        /\ SnapshotDone("commit", snapshot_LSM_commit(state, lsm, tx_level, rc))

SnapshotRollback ==
    \E rc \in EngineRc :
        /\ tx_level > MinSnapshotLevel
        /\ SnapshotDone("rollback", snapshot_LSM_rollback(state, lsm, tx_level, rc))

\* LSM_set_del_item of the snapshot with a value: lsm_insert under the mutex
SnapshotInsert ==
    \E k \in TxKeys, v \in Vals, rc \in EngineRc :
        /\ state = PY_LSM_OPENED
        /\ SnapshotDone("insert",
               Res(pylsm_error(rc), After(lsm, lsm_insert(lsm, k, v), rc),
                   tx_level, <<Call("lsm_insert", k)>>, rc))

NextSnapshot ==
    \/ SnapshotBegin
    \/ SnapshotCommit
    \/ SnapshotRollback
    \/ SnapshotInsert

SpecSnapshot == InitSnapshot /\ [][NextSnapshot]_vars

\* ---------------------------------------------------------------- claims
TxOps == {"begin", "commit", "rollback", "transaction", "tx_commit", "tx_rollback", "tx_exit"}

\* the one engine call a scope exit of handle t makes
ExitCall(t, exceptional) ==
    IF exceptional THEN Call("lsm_rollback", t.tx_level)
    ELSE Call("lsm_commit", t.tx_level - 1)

NoCommitOrRollback(calls) ==
    \A i \in 1..Len(calls) : calls[i][1] \notin {"lsm_commit", "lsm_rollback"}

\* C1: on a Connection shared by several threads every engine call is made
\* by a thread that holds the Connection's mutex (so at most one thread at a
\* time is inside the engine).
C1_EngineCallsHoldMutex ==
    \A t \in Threads : InEngine(t) => lsm_mutex = t

\* C2: after every completed operation on an OPENED Connection the tracked
\* tx_level equals the engine's transaction nesting depth.
C2_TxLevelIsEngineDepth ==
    state = PY_LSM_OPENED => tx_level = lsm.nTransOpen

\* C3: a rollback through a handle whose level is still the one it opened
\* restores the contents of the moment that level was opened (the writes made
\* since are discarded, those made below are kept), leaves the engine at the
\* handle's level, and leaves the levels of the enclosing handles as they were.
C3_HandleRollbackRestores ==
    [][(/\ last'.op = "tx_rollback"
        /\ last'.exc = NoExc
        /\ txs[last'.h].current)
       => LET t == txs[last'.h]
          IN  /\ lsm'.store = t.opened
              /\ lsm'.nTransOpen = t.tx_level
              /\ \A g \in TxIds :
                    (txs[g].current /\ txs[g].tx_level <= t.tx_level)
                    => /\ txs'[g].current
                       /\ lsm'.aTrans[txs[g].tx_level] = txs[g].opened]_vars

\* C3 witness: level 2 was rolled back through its handle and the contents
\* differ from those at the opening of level 1 (the level-1 write is kept).
C3_Witness ==
    /\ last.op = "tx_rollback"
    /\ last.exc = NoExc
    /\ txs[last.h].current
    /\ txs[last.h].tx_level = 2
    /\ lsm.nTransOpen = 2
    /\ lsm.store = txs[last.h].opened
    /\ lsm.aTrans[1] # lsm.store

\* C4: a successful Transaction.commit() calls lsm_commit at the handle's
\* level - 1 and then lsm_begin at the handle's level: the depth is the
\* handle's level again, the contents are unchanged and are what the reopened
\* level remembers; a rollback() through the handle after that restores the
\* contents of the commit.
C4_HandleCommitReopens ==
    [][/\ (last'.op = "tx_commit" /\ last'.exc = NoExc)
          => LET n == txs[last'.h].tx_level
             IN  /\ last'.calls = <<Call("lsm_commit", n - 1), Call("lsm_begin", n)>>
                 /\ lsm'.nTransOpen = n
                 /\ lsm'.store = lsm.store
                 /\ lsm'.aTrans[n] = lsm.store
       /\ (/\ last'.op = "tx_rollback"
           /\ last'.exc = NoExc
           /\ txs[last'.h].current
           /\ txs[last'.h].acted = "commit")
          => lsm'.store = txs[last'.h].opened]_vars

\* C4 witness: a handle that committed part-way was rolled back afterwards,
\* and the contents are the non-empty contents of its commit.
C4_Witness ==
    /\ last.op = "tx_rollback"
    /\ last.exc = NoExc
    /\ txs[last.h].current
    /\ last.acted = "commit"
    /\ lsm.store = txs[last.h].opened
    /\ lsm.store # EmptyStore

\* C5: Connection.commit() at level n >= 1 ends level n: afterwards the
\* tracked level and the engine depth are n - 1.
C5_ConnectionCommitEndsLevel ==
    [][(last'.op = "commit" /\ last'.exc = NoExc /\ tx_level >= 1)
       => (tx_level' = tx_level - 1 /\ lsm'.nTransOpen = tx_level - 1)]_vars

\* C6: transaction() or begin() called while the engine has no transaction
\* open opens level 1, and the normal scope exit of a level-1 handle leaves no
\* transaction open.
C6_FirstTransactionIsLevelOne ==
    [][/\ (last'.op \in {"transaction", "begin"} /\ last'.exc = NoExc /\ lsm.nTransOpen = 0)
          => (tx_level' = 1 /\ lsm'.nTransOpen = 1)
       /\ (/\ last'.op = "tx_exit"
           /\ last'.exc = NoExc
           /\ ~last'.exceptional
           /\ txs[last'.h].state # PY_LSM_CLOSED
           /\ txs[last'.h].tx_level = 1)
          => lsm'.nTransOpen = 0]_vars

\* C7: on an OPENED Connection the exit of a Transaction scope issues exactly
\* one engine call, lsm_commit at the handle's level - 1 on normal exit and
\* lsm_rollback at the handle's level on exceptional exit; the handle is CLOSED
\* afterwards, and the exit of a CLOSED handle issues no engine call.
C7_ScopeExitOneCall ==
    [][last'.op = "tx_exit"
       => LET t == txs[last'.h]
          IN  /\ txs'[last'.h].state = PY_LSM_CLOSED
              /\ t.state = PY_LSM_CLOSED => last'.calls = <<>>
              /\ (t.state # PY_LSM_CLOSED /\ state = PY_LSM_OPENED)
                 => last'.calls = <<ExitCall(t, last'.exceptional)>>]_vars

\* C7 witness: a second exit of a handle, on an OPENED Connection, after the
\* first exit closed it: no engine call.
C7_Witness ==
    /\ last.op = "tx_exit"
    /\ last.calls = <<>>
    /\ last.exc = NoExc
    /\ state = PY_LSM_OPENED
    /\ txs[last.h].state = PY_LSM_CLOSED

C10_FailedCallKeepsLevel ==
    [][(last'.op \in TxOps /\ last'.rc # LSM_OK)
       => (last'.exc # NoExc /\ tx_level' = tx_level)]_vars

\* C10 witness: begin failed in the engine at tracked level 1.
C10_Witness ==
    /\ last.op \in {"begin", "transaction"}
    /\ last.rc = LSM_BUSY
    /\ last.exc # NoExc
    /\ last.calls = <<Call("lsm_begin", 2)>>
    /\ tx_level = 1

\* C11: closing or destroying a Connection that has an open transaction (by
\* close(), by a scope exit, normal or exceptional, or by destruction) restores
\* the contents of the moment the outermost level was opened when the engine
\* closes, and sets no exception (a close() that the engine refuses may report
\* it; a scope exit and a destruction may not).
C11_CleanupRollsBack ==
    [][(/\ last'.op \in {"close", "ctx_exit", "dealloc"}
        /\ state = PY_LSM_OPENED
        /\ lsm.nTransOpen > 0)
       => /\ last'.rc = LSM_OK => lsm'.store = lsm.aTrans[1]
          /\ (last'.rc = LSM_OK \/ last'.op # "close") => last'.exc = NoExc]_vars

\* C12: every successful begin() or transaction() raises the Connection's
\* tx_level by one, also when another thread's begin() or transaction() runs
\* at the same time: two concurrent successful calls get distinct consecutive
\* levels and raise tx_level by 2.
C12_ConcurrentBeginsCount ==
    [][\A t \in Threads :
          (/\ thr[t].pos = "wait_gil"
           /\ thr[t].op \in {"begin", "transaction"}
           /\ thr[t].rc = LSM_OK
           /\ thr'[t].pos = "idle")
          => tx_level' = tx_level + 1]_vars

\* the Connection operations that reach the engine
EngineOps == {"getitem", "setitem", "delitem", "insert", "delete", "delete_range",
              "update", "contains", "length", "info", "work", "flush",
              "checkpoint", "begin", "transaction", "commit", "rollback"}

\* C13: on a Connection that is not OPENED every operation that reaches the
\* engine fails with the usage error (RuntimeError) and makes no engine call
\* (the mutex is taken only around the engine calls).
C13_NotOpenedNoEngineCall ==
    [][(last'.op \in EngineOps /\ state # PY_LSM_OPENED)
       => (last'.exc = "RuntimeError" /\ last'.calls = <<>>)]_vars

\* C14: open() succeeds only on an INITIALIZED Connection, which it leaves
\* OPENED; on an OPENED or CLOSED Connection it fails with the usage error
\* (RuntimeError), makes no engine call and leaves the state as it was.
C14_OpenOnlyInitialized ==
    [][last'.op = "open"
       => /\ state # PY_LSM_INITIALIZED
             => (last'.exc = "RuntimeError" /\ last'.calls = <<>> /\ state' = state)
          /\ last'.exc = NoExc
             => (state = PY_LSM_INITIALIZED /\ state' = PY_LSM_OPENED)]_vars

\* C14 witness: open() was refused on a CLOSED Connection.
C14_Witness ==
    /\ last.op = "open"
    /\ last.exc = "RuntimeError"
    /\ last.calls = <<>>
    /\ state = PY_LSM_CLOSED

\* C15: CLOSED is terminal: no operation moves a CLOSED Connection to another
\* state, a successful close() leaves the Connection CLOSED, and close() on a
\* CLOSED Connection fails with the usage error and makes no engine call.
C15_ClosedIsTerminal ==
    [][/\ state = PY_LSM_CLOSED => state' = PY_LSM_CLOSED
       /\ (last'.op = "close" /\ last'.exc = NoExc) => state' = PY_LSM_CLOSED
       /\ (last'.op = "close" /\ state = PY_LSM_CLOSED)
          => (last'.exc = "RuntimeError" /\ last'.calls = <<>>)]_vars

\* C15 witness: a scope entry on a CLOSED Connection was refused and the
\* Connection is still CLOSED.
C15_Witness ==
    /\ last.op = "ctx_enter"
    /\ last.exc = "RuntimeError"
    /\ state = PY_LSM_CLOSED

\* the operations that change the stored data, the transaction level or the
\* files of the database
MutatingOps == {"insert", "setitem", "delitem", "delete", "delete_range", "update",
                "begin", "transaction", "commit", "rollback", "work", "flush",
                "checkpoint"}

\* C16: on an OPENED read-only Connection every mutating operation fails with
\* the read-only error (PermissionError) before any engine call; the stored
\* data and tx_level are unchanged.
C16_ReadOnlyRefusesWrites ==
    [][(last'.op \in MutatingOps /\ state = PY_LSM_OPENED /\ readonly # 0)
       => /\ last'.exc = "PermissionError"
          /\ last'.calls = <<>>
          /\ lsm' = lsm
          /\ tx_level' = tx_level]_vars

\* C16 witness: an item assignment was refused on a read-only Connection that
\* holds data.
C16_Witness ==
    /\ last.op = "setitem"
    /\ last.exc = "PermissionError"
    /\ last.calls = <<>>
    /\ readonly = 1
    /\ state = PY_LSM_OPENED
    /\ lsm.store # EmptyStore

\* the calls a Cursor takes besides scope entry and exit
CursorCalls == {"first", "last", "seek", "next", "previous", "retrieve", "key",
                "value", "compare", "close"}

\* C17: every call on a Cursor that is CLOSED is rejected as a usage error
\* (RuntimeError), makes no engine call, dereferences nothing the Cursor has
\* released, and leaves the Cursor as it is
C17_ClosedCursorInert ==
    [][(/\ csr.alive
        /\ csr.state = PY_LSM_CLOSED
        /\ last'.op \in CursorCalls)
       => /\ last'.exc = "RuntimeError"
          /\ last'.calls = <<>>
          /\ csr' = csr]_vars

\* C18: exit from a Cursor scope leaves the Cursor CLOSED with its engine
\* cursor released, wherever the cursor stands (the engine refusing the
\* release aside)
C18_ScopeExitCloses ==
    [][(/\ csr.alive
        /\ last'.op = "ctx_exit"
        /\ last'.rc = LSM_OK)
       => /\ csr'.state = PY_LSM_CLOSED
          /\ ~csr'.cursor]_vars

\* next() or previous() has just returned False because the cursor ran past
\* the end: it stood on an entry before and stands on none now
RanPastTheEnd ==
    /\ last.op \in {"next", "previous"}
    /\ last.ret = "False"
    /\ last.exc = NoExc
    /\ lsm_csr_valid(last.was.pos)
    /\ ~lsm_csr_valid(csr.pos)

\* C19: after next() or previous() ran past the end, a following first(),
\* last() or seek() is accepted and repositions the cursor: first() and
\* last() return whether they found an entry and leave the cursor on the
\* first or last key, and seek() is not rejected with a usage error (engine
\* failures aside)
C19_ReseekAfterEnd ==
    [][(RanPastTheEnd /\ last'.rc = LSM_OK)
       => /\ last'.op = "first"
             => (last'.ret \in {"True", "False"} /\ csr'.pos = lsm_csr_first(lsm.store))
          /\ last'.op = "last"
             => (last'.ret \in {"True", "False"} /\ csr'.pos = lsm_csr_last(lsm.store))
          /\ last'.op = "seek" => last'.exc # "RuntimeError"]_vars

\* C20: retrieve(), key() and value() on an open Cursor that stands on no
\* valid entry return None and raise nothing
C20_FetchOffEntryReturnsNone ==
    [][(/\ csr.alive
        /\ csr.state = PY_LSM_OPENED
        /\ ~lsm_csr_valid(csr.pos)
        /\ last'.op \in {"retrieve", "key", "value"})
       => /\ last'.ret = "None"
          /\ last'.exc = NoExc]_vars

\* C21: next() and previous() on an open Cursor whose recorded seek mode is
\* LSM_SEEK_EQ are reported as misuse (RuntimeError) without a call of
\* lsm_csr_next or lsm_csr_prev, and leave the cursor where it stands
C21_NoAdvanceAfterEq ==
    [][(/\ csr.alive
        /\ csr.state = PY_LSM_OPENED
        /\ csr.seek_mode = LSM_SEEK_EQ
        /\ last'.op \in {"next", "previous"})
       => /\ last'.exc = "RuntimeError"
          /\ \A i \in DOMAIN last'.calls :
                last'.calls[i][1] \notin {"lsm_csr_next", "lsm_csr_prev"}
          /\ csr'.pos = csr.pos]_vars

\* C22: right after a seek with mode LSM_SEEK_LEFAST that succeeded,
\* retrieve() and value() are rejected as misuse (RuntimeError) and fetch
\* nothing from the engine cursor
C22_NoValueAfterLefast ==
    [][(/\ last.op = "seek"
        /\ last.exc = NoExc
        /\ csr.seek_mode = LSM_SEEK_LEFAST
        /\ last'.op \in {"retrieve", "value"})
       => /\ last'.exc = "RuntimeError"
          /\ \A i \in DOMAIN last'.calls :
                last'.calls[i][1] \notin {"pylsm_cursor_items_fetch",
                                          "pylsm_cursor_value_fetch"}]_vars

\* an exact lookup of key k and `k in connection` on engine e, with every
\* engine call succeeding
Lookup(e, k) == LSM_getitem_key(binary, e, TRUE, k, LSM_SEEK_EQ, AllOk)
Member(e, k) == LSM_contains_key(e, TRUE, k, AllOk)

\* C23: after db[k] = v succeeded an exact lookup of k returns v and k is in
\* the Connection; after del db[k] succeeded k is not in the Connection and
\* an exact lookup of k is a KeyError; lookups of other keys give what they
\* gave before
C23_SetGetDelete ==
    [][/\ (last'.op = "setitem" /\ last'.exc = NoExc)
          => /\ Lookup(lsm', last'.key).ret = last'.value
             /\ Lookup(lsm', last'.key).exc = NoExc
             /\ Member(lsm', last'.key).ret = PyTrue
       /\ (last'.op = "delitem" /\ last'.exc = NoExc)
          => /\ Lookup(lsm', last'.key).exc = "KeyError"
             /\ Member(lsm', last'.key).ret = PyFalse
             /\ Member(lsm', last'.key).exc = NoExc
       /\ (last'.op \in {"setitem", "delitem"} /\ last'.exc = NoExc)
          => \A j \in SeekKeys \ {last'.key} :
                /\ Lookup(lsm', j).ret = Lookup(lsm, j).ret
                /\ Lookup(lsm', j).exc = Lookup(lsm, j).exc
                /\ Member(lsm', j).ret = Member(lsm, j).ret]_vars

\* a str value of a two-byte character was set under a key, next to another
\* stored key
C23_Witness ==
    /\ last.op = "setitem"
    /\ last.exc = NoExc
    /\ last.value = PyStr(<<233>>)
    /\ DOMAIN lsm.store = CsrKeys

\* C24: a point lookup one of whose engine calls returned a code other than
\* LSM_OK raises the failure of that code and returns nothing
C24_FailedLookupRaises ==
    [][(last'.op = "getitem" /\ last'.rc # LSM_OK)
       => /\ last'.exc = pylsm_error(last'.rc)
          /\ last'.ret = PyNULL]_vars

\* the stored keys a lookup of k with seek_mode can match, and the one it
\* must match: k itself, the greatest stored key <= k, the least >= k
Matches(s, k, seek_mode) ==
    CASE seek_mode = LSM_SEEK_EQ -> {x \in DOMAIN s : x = k}
      [] seek_mode = LSM_SEEK_GE -> {x \in DOMAIN s : x >= k}
      [] OTHER -> {x \in DOMAIN s : x <= k}
Closest(s, k, seek_mode) ==
    CHOOSE m \in Matches(s, k, seek_mode) :
        \A y \in Matches(s, k, seek_mode) :
            IF seek_mode = LSM_SEEK_GE THEN m <= y ELSE m >= y
\* object o is the value stored as bytes b
IsValueOf(o, b) ==
    /\ o \in ValObjects
    /\ str_or_bytes_check(binary, o).rc = 0
    /\ str_or_bytes_check(binary, o).buff = b

\* a lookup whose arguments were accepted and whose engine calls succeeded
LookupDone(mode) ==
    /\ last'.op = "getitem"
    /\ last'.seek_mode = mode
    /\ last'.rc = LSM_OK
    /\ last'.exc # "ValueError"

\* C25: db[k, mode] returns the value stored under k for EQ, under the
\* greatest stored key <= k for LE and under the least stored key >= k for
\* GE, and is a KeyError exactly when there is no such key
C25_LookupBySeekMode ==
    [][\A mode \in {LSM_SEEK_EQ, LSM_SEEK_LE, LSM_SEEK_GE} :
          LookupDone(mode)
          => IF Matches(lsm.store, last'.key, mode) = {}
             THEN last'.exc = "KeyError"
             ELSE /\ last'.exc = NoExc
                  /\ IsValueOf(last'.ret, lsm.store[Closest(lsm.store, last'.key, mode)])]_vars

\* a lookup of a key that is not stored returned the non-empty value of the
\* closest stored key below or above it
C25_Witness ==
    /\ last.op = "getitem"
    /\ last.seek_mode \in {LSM_SEEK_LE, LSM_SEEK_GE}
    /\ last.exc = NoExc
    /\ last.key \notin DOMAIN lsm.store
    /\ last.ret.type \in {"str", "bytes"}
    /\ last.ret.data # <<>>

\* C26: db[k, LEFAST] returns True and no stored value when some stored key
\* <= k exists, and is a KeyError when there is none
C26_LefastExistenceOnly ==
    [][LookupDone(LSM_SEEK_LEFAST)
       => IF Matches(lsm.store, last'.key, LSM_SEEK_LEFAST) = {}
          THEN last'.exc = "KeyError"
          ELSE /\ last'.exc = NoExc
               /\ last'.ret = PyTrue
               /\ \A i \in DOMAIN last'.calls : last'.calls[i][1] # "lsm_csr_value"]_vars

\* a LEFAST lookup of a key that is not stored returned True
C26_Witness ==
    /\ last.op = "getitem"
    /\ last.seek_mode = LSM_SEEK_LEFAST
    /\ last.key \notin DOMAIN lsm.store
    /\ last.ret = PyTrue
    /\ last.rc = LSM_OK

\* the keys of the set S in ascending order
RECURSIVE Ascending(_)
Ascending(S) == IF S = {} THEN <<>> ELSE <<Least(S)>> \o Ascending(S \ {Least(S)})

\* C27: iterating keys(), values() or items() of a Connection that is not
\* modified meanwhile yields every stored entry exactly once, in ascending
\* key order, and then signals exhaustion: on a view whose engine calls
\* succeed, the n-th __next__ after __iter__ hands out the entry of the n-th
\* smallest key, and the __next__ after the last entry raises StopIteration
\* and closes the view.
C27_IterateAllAscending ==
    [][(/\ view.alive /\ view.kind \in IterKinds /\ view.clean
        /\ view.state = PY_LSM_OPENED /\ view.cursor
        /\ last'.op = "next" /\ last'.rc = LSM_OK)
       => IF Len(view.out) < Len(Ascending(DOMAIN lsm.store))
          THEN /\ last'.exc = NoExc
               /\ last'.ret = Ascending(DOMAIN lsm.store)[Len(view.out) + 1]
               /\ view'.out = Append(view.out, last'.ret)
               /\ view'.state = PY_LSM_OPENED
          ELSE /\ last'.exc = "StopIteration"
               /\ view'.out = Ascending(DOMAIN lsm.store)
               /\ view'.state = PY_LSM_CLOSED]_vars

\* a view over a full database has handed out every entry and is exhausted
C27_Witness ==
    /\ view.alive /\ view.kind \in IterKinds /\ view.clean
    /\ last.op = "next" /\ last.exc = "StopIteration"
    /\ view.state = PY_LSM_CLOSED
    /\ Len(view.out) = MaxViewKey

\* the stored keys between the two bounds of the slice v, both included; a
\* bound that is None does not bound. A backward slice seeks from v.start
\* down to v.stop.
SliceRange(v, s) ==
    {k \in DOMAIN s :
        /\ v.start = -1 \/ (IF v.direction = PY_LSM_SLICE_FORWARD
                            THEN k >= v.start ELSE k <= v.start)
        /\ v.stop = -1 \/ (IF v.direction = PY_LSM_SLICE_FORWARD
                           THEN k <= v.stop ELSE k >= v.stop)}

IsPrefix(p, q) == Len(p) <= Len(q) /\ \A i \in 1..Len(p) : p[i] = q[i]

\* a slice made as db[start:stop] whose engine calls have succeeded
ForwardSlice ==
    /\ view.alive /\ view.kind = "slice" /\ view.clean
    /\ view.direction = PY_LSM_SLICE_FORWARD /\ view.step = 1

CleanSlice == view.alive /\ view.kind = "slice" /\ view.clean

Yielded(v) == {v.out[i] : i \in 1..Len(v.out)}

\* C29 as stated: the stop key of a slice is exclusive, the slice never
\* yields an entry whose key equals its stop key.
C29_StopExclusive == CleanSlice => view.stop \notin Yielded(view)

\* C29, amended: the stop key of a slice is inclusive. The slice never yields
\* an entry beyond its stop key in the direction of the iteration, and a
\* slice of step 1 or -1 that is exhausted has yielded the entry of its stop
\* key, if that key is stored and not before the start bound.
C29_StopInclusive ==
    CleanSlice
    => /\ view.stop # -1
          => \A k \in Yielded(view) : ~StopPassed(view.direction, lsm_csr_cmp(k, view.stop))
       /\ (/\ view.state = PY_LSM_CLOSED /\ Abs(view.step) = 1
           /\ view.stop \in SliceRange(view, lsm.store))
          => view.stop \in Yielded(view)

\* the backward slice db[2::-1] over the keys 1..4 ends with the entry of 2
C29_Witness ==
    /\ CleanSlice
    /\ view.direction = PY_LSM_SLICE_BACKWARD /\ view.step = -1
    /\ view.state = PY_LSM_CLOSED
    /\ DOMAIN lsm.store = ViewKeys
    /\ view.start = -1 /\ view.stop = 2
    /\ view.out = <<4, 3, 2>>

Reverse(q) == [i \in 1..Len(q) |-> q[Len(q) + 1 - i]]

\* the entries of the bounded range of the slice v in the direction of its
\* iteration
RangeSeq(v, s) ==
    IF v.direction = PY_LSM_SLICE_FORWARD THEN Ascending(SliceRange(v, s))
    ELSE Reverse(Ascending(SliceRange(v, s)))

\* the stored keys at or after the start bound of the slice v in the
\* direction of its iteration
FromStart(v, s) ==
    {k \in DOMAIN s : v.start = -1 \/ (IF v.direction = PY_LSM_SLICE_FORWARD
                                       THEN k >= v.start ELSE k <= v.start)}

\* C30: with a step of magnitude m >= 1 a slice yields the 1st, (1+m)-th,
\* (1+2m)-th, ... entries of its bounded range in the iteration direction:
\* the __next__ after n yielded entries hands out entry 1 + n*m of the
\* range, or raises StopIteration when the range has no such entry. The
\* stop bound is tested after every engine step, also at entries that are
\* stepped over: the exhausted cursor stands nowhere, or on the first entry
\* from the start bound on that is beyond the stop key.
C30_EveryMthEntry ==
    [][(/\ CleanSlice /\ view.cursor /\ view.step # 0
        /\ view.state \in {PY_LSM_OPENED, PY_LSM_ITERATING}
        /\ last'.op = "next" /\ last'.rc = LSM_OK)
       => LET R == RangeSeq(view, lsm.store)
              idx == 1 + Len(view.out) * Abs(view.step)
          IN  IF idx <= Len(R)
              THEN /\ last'.exc = NoExc
                   /\ last'.ret = R[idx]
                   /\ view'.out = Append(view.out, R[idx])
                   /\ view'.state = PY_LSM_ITERATING
              ELSE /\ last'.exc = "StopIteration"
                   /\ view'.out = view.out
                   /\ view'.state = PY_LSM_CLOSED
                   /\ \/ ~lsm_csr_valid(view'.pos)
                      \/ /\ view.stop # -1
                         /\ StopPassed(view.direction, lsm_csr_cmp(view'.pos, view.stop))
                         /\ \A k \in FromStart(view, lsm.store) :
                               StopPassed(view.direction, lsm_csr_cmp(k, view.stop))
                               => ~StopPassed(view.direction, lsm_csr_cmp(view'.pos, k))]_vars

\* db[:3:2] over the keys 1..4 yields 1 and 3 and ends at the entry 4, which
\* it would have stepped over
C30_Witness ==
    /\ CleanSlice
    /\ view.step = 2 /\ view.start = -1 /\ view.stop = 3
    /\ DOMAIN lsm.store = ViewKeys
    /\ view.state = PY_LSM_CLOSED
    /\ view.out = <<1, 3>>
    /\ view.pos = 4
    /\ last.op = "next" /\ last.exc = "StopIteration"

\* list(db[a:b:step]) on the store s with every engine call succeeding: the
\* slice is made, __iter__ is called and __next__ until it raises
RECURSIVE Pull(_, _)
Pull(v, s) ==
    LET r == LSMSliceView_next(v, s, LSM_OK, "trap")
    IN  IF r.exc = NoExc THEN Pull(r.view, s) ELSE r.view.out

list_slice(s, a, b, step) ==
    Pull(LSMSliceView_iter(LSMSliceView_init(a, b, step, TRUE, TRUE).view,
                           s, LSM_OK, LSM_OK).view, s)

\* every m-th entry of the sequence q, from its first entry on
EveryNth(q, m) == [i \in 1..((Len(q) + m - 1) \div m) |-> q[1 + (i - 1) * m]]

\* a slice db[a:b:-s] with s > 0 that is exhausted: LSMSliceView_init has
\* made a its stop bound and b its start bound
ExhaustedBackward ==
    /\ CleanSlice /\ view.step < 0
    /\ view.state = PY_LSM_CLOSED

C32_StepNeverZero ==
    (view.alive /\ view.kind = "slice") => Abs(view.step) >= 1

\* C33: exhaustion of a slice is permanent. A __next__ that raises
\* StopIteration leaves the slice CLOSED; on a CLOSED slice every __next__
\* raises StopIteration again and __iter__ returns the slice as it is, both
\* without an engine call and without a change to the slice.
C33_ExhaustionIsPermanent ==
    [][(view.alive /\ view.kind = "slice" /\ last'.op \in {"next", "iter"})
       => /\ (last'.op = "next" /\ last'.exc = "StopIteration")
             => view'.state = PY_LSM_CLOSED
          /\ view.state = PY_LSM_CLOSED
             => /\ view' = view
                /\ last'.calls = <<>>
                /\ last'.exc = IF last'.op = "next" THEN "StopIteration" ELSE NoExc]_vars

\* a slice that ran past its stop bound after two entries has been pulled
\* again after its exhaustion
C33_Witness ==
    /\ view.alive /\ view.kind = "slice" /\ view.state = PY_LSM_CLOSED
    /\ view.stop # -1 /\ lsm_csr_valid(view.pos)
    /\ Len(view.out) = 2
    /\ last.op = "next" /\ last.exc = "StopIteration" /\ last.calls = <<>>

\* C34: delete_range(a, b) and del db[a:b] issue one engine delete-range
\* call with exactly the keys a and b, and remove exactly the stored entries
\* with a < key < b: the entries of a and of b and every entry outside the
\* range remain as they were.
C34_DeleteRangeExclusive ==
    [][(last'.op \in {"delete_range", "delslice"} /\ last'.exc = NoExc)
       => /\ last'.calls = <<Call("lsm_delete_range", <<last'.key, last'.stop>>)>>
          /\ DOMAIN lsm'.store
               = {k \in DOMAIN lsm.store : ~(last'.key < k /\ k < last'.stop)}
          /\ \A k \in DOMAIN lsm'.store : lsm'.store[k] = lsm.store[k]]_vars

\* del db[0:2] on a database that held the keys 1 and 2 has removed 1 and
\* left the entry of its end 2
C34_Witness ==
    /\ last.op = "delslice" /\ last.exc = NoExc
    /\ last.key = 0 /\ last.stop = 2
    /\ DOMAIN lsm.store = {2}

LoggerDeadlock(t, u) ==
    /\ thr[t].pos = "lock" /\ gil = t
    /\ lsm_mutex = u /\ thr[u].pos = "log_wait"

\* C36: with a logger callback configured, threads sharing one Connection
\* cannot deadlock between the interpreter lock and the Connection's mutex:
\* it never happens that one thread waits for the mutex holding the
\* interpreter lock while the mutex holder, in an engine call that invokes
\* the logger, waits for the interpreter lock.
C36_NoLoggerDeadlock ==
    logger = 1 => \A t, u \in Threads : ~LoggerDeadlock(t, u)

\* C37: no pull on a keys/values/items view or on a slice passes to the
\* engine a cursor that was not successfully opened. A __next__ on a view
\* that holds no engine cursor (before __iter__, or after lsm_csr_open
\* failed in __iter__) is rejected with RuntimeError without an engine call,
\* and an __iter__ that failed in the engine does not leave the view OPENED.
C37_NoPullWithoutCursor ==
    [][/\ (view.alive /\ ~view.cursor /\ last'.op = "next")
          => (last'.exc = "RuntimeError" /\ last'.calls = <<>>)
       /\ (view.alive /\ last'.op = "iter" /\ last'.rc # LSM_OK)
          => view'.state # PY_LSM_OPENED]_vars

\* the engine calls of open() in their order
OpenCalls == IF readonly = 0
             THEN <<Call("lsm_open", 0), Call("lsm_flush", 0), Call("lsm_work", 0)>>
             ELSE <<Call("lsm_open", 0)>>

\* C38: open() on a Connection that is INITIALIZED calls the engine in the
\* fixed order open, flush, bounded merge (open alone when read-only) and
\* sets the state to OPENED only after all of them returned OK; when one
\* fails the calls end with it, the failure is raised, the state stays
\* INITIALIZED and no call is made twice.
C38_OpenSequence ==
    [][(state = PY_LSM_INITIALIZED /\ last'.op = "open")
       => /\ Len(last'.calls) \in 1..Len(OpenCalls)
          /\ \A i \in 1..Len(last'.calls) : last'.calls[i] = OpenCalls[i]
          /\ IF last'.rc = LSM_OK
             THEN /\ last'.calls = OpenCalls
                  /\ last'.exc = NoExc
                  /\ state' = PY_LSM_OPENED
             ELSE /\ last'.exc = pylsm_error(last'.rc)
                  /\ last'.exc # NoExc
                  /\ state' = PY_LSM_INITIALIZED]_vars

\* open() of a writable Connection whose lsm_flush failed
C38_Witness ==
    /\ last.op = "open" /\ last.rc # LSM_OK
    /\ readonly = 0
    /\ last.calls = <<Call("lsm_open", 0), Call("lsm_flush", 0)>>
    /\ state = PY_LSM_INITIALIZED

\* C39: a Cursor's recorded seek mode is always one of EQ, LE, GE and
\* LEFAST, and a seek() that is rejected before its engine call (invalid
\* mode, key of the wrong type, arguments that do not parse) leaves the
\* recorded seek mode as it was before the call.
C39_RejectedSeekKeepsMode ==
    [][/\ csr'.alive => csr'.seek_mode \in SeekModes
       /\ (/\ csr.alive /\ last'.op = "seek"
           /\ last'.exc \notin {NoExc, Crash} /\ last'.rc = LSM_OK)
          => csr'.seek_mode = csr.seek_mode]_vars

\* C40: in the snapshot src/src/lsm.c, a commit or rollback whose engine
\* call returns a non-OK code leaves tx_level as it was before the call, and
\* tx_level is never negative, also for a commit or rollback at level 0.
C40_FailedEndKeepsLevel ==
    [][/\ tx_level' >= 0
       /\ (last'.op \in {"commit", "rollback"} /\ last'.rc # LSM_OK)
          => tx_level' = tx_level]_vars

====
